---- MODULE Spec2Model ----
(***************************************************************************)
(* Merge engine of the knowledge-base ingestion pipeline.                  *)
(*                                                                         *)
(* Text is modelled by TLA+ strings, read character by character with      *)
(* SubSeq; the regular expressions of the source are modelled by what they *)
(* match (leftmost match, look-behind, look-ahead, word boundary, greedy   *)
(* whitespace runs, case folding).                                         *)
(***************************************************************************)
EXTENDS Naturals, Integers, Sequences, FiniteSets, TLC

VARIABLES
    variant,        \* which merge module runs: "cu" (fn_convert) or "mistral"
    cu_markdown,    \* text_result.markdown: the extracted text handed to recover_links
    link_map,       \* list of (link_text, url)
    image_map,      \* list of (preceding_text, stem)
    image_analyses, \* list of ImageAnalysisResult
    linked,         \* value returned by recover_links = argument of insert_image_blocks
    result,         \* the local `result` of the function that is running
    prev,           \* `result` before the last loop iteration
    li,             \* number of link records processed
    ii,             \* number of image records still to process (reverse order)
    dom,            \* the parsed HTML: the nodes of the tree in document order
    scan,           \* number of <img> elements extract_image_map has visited
    source_filenames, \* merge_article: the image filenames the marker scan found
    descriptions,   \* merge_article: filename -> text of the vision model, as <<filename, text>>
    article,        \* merge_article: the local `article`
    mi,             \* merge_article: number of filenames processed
    staged,         \* merge_article: the image files present in the staging directory
    copied,         \* merge_article: the image files written to the output directory
    markdown,       \* chunk_article: the argument `markdown`
    hpos,           \* chunk_article: where _HEADER_RE.finditer searches next
    headers,        \* chunk_article: list of <<start, level, header_text>>
    article_title,  \* chunk_article: the local `article_title`
    sections,       \* chunk_article: list of <<level, header_text, content>>
    chunks,         \* chunk_article: list of Chunk
    current_h2,     \* chunk_article: the local `current_h2`
    ci,             \* chunk_article: number of sections processed
    article_id,     \* fn_index.run: the name of the article folder
    search_index,   \* the search index: its documents, in the order they were first uploaded
    runs,           \* number of finished runs of fn_index.run
    handler,        \* function_app: the HTTP function that runs
    article_ids,    \* function_app: the list _get_article_ids returned
    faults,         \* function_app: article id -> the stage of its processing that raises, "ok" when none
    attempted,      \* function_app: the article ids whose processing was started, in order
    stage,          \* function_app: number of stages done for the article in hand
    results,        \* function_app: the local `results`
    response,       \* function_app: the HttpResponse returned
    events,         \* agent/main.py: the server-sent events the generator has yielded
    full_response,  \* agent/main.py: the local `full_response`
    agent_out,      \* agent/main.py: the chunks the agent run produces
    fail_at,        \* agent/main.py: the agent raises in place of this chunk (0: it never raises)
    streaming,      \* agent/main.py: hasattr(agent, "run_stream")
    taken,          \* agent/main.py: number of chunks read from the agent
    pending,        \* agent/main.py: _pending_citations
    pending_citations, \* web-app kb_agent.py: the module-level list _pending_citations
    chat_calls,     \* web-app kb_agent.py: the calls of KBAgent.chat / chat_stream
    messages,       \* vision_middleware.py: context.messages
    image_items,    \* vision_middleware.py: the local image_items (blob keys attached)
    seen_paths,     \* vision_middleware.py: the local seen_paths
    blobs,          \* vision_middleware.py: the blob keys download_image can read
    vm,             \* vision_middleware.py: index of the message being scanned
    vc,             \* vision_middleware.py: index of the content being scanned
    next_calls,     \* vision_middleware.py: number of calls of next(context)
    pc              \* position in run()

vars == <<variant, cu_markdown, link_map, image_map, image_analyses, linked,
          result, prev, li, ii, dom, scan,
          source_filenames, descriptions, article, mi, staged, copied,
          markdown, hpos, headers, article_title, sections, chunks, current_h2, ci,
          article_id, search_index, runs,
          handler, article_ids, faults, attempted, stage, results, response,
          events, full_response, agent_out, fail_at, streaming, taken, pending,
          pending_citations, chat_calls,
          messages, image_items, seen_paths, blobs, vm, vc, next_calls, pc>>

\* the variables of extract_image_map
parserVars == <<dom, scan>>

\* the variables of merge_article
markerVars == <<source_filenames, descriptions, article, mi, staged, copied>>

\* the variables of chunk_article
chunkVars == <<markdown, hpos, headers, article_title, sections, chunks, current_h2, ci>>

\* the variables of fn_index.run besides those of chunk_article
indexVars == <<article_id, search_index, runs>>

\* the variables of the HTTP functions of function_app
batchVars == <<handler, article_ids, faults, attempted, stage, results, response>>

\* the variables of the streaming response of the agent service
streamVars == <<events, full_response, agent_out, fail_at, streaming, taken, pending>>

\* the variables of KBAgent of the web app
kbVars == <<pending_citations, chat_calls>>

\* the variables of VisionImageMiddleware.process
visionVars == <<messages, image_items, seen_paths, blobs, vm, vc, next_calls>>

\* the variables of the services around the pipeline stages
appVars == <<batchVars, streamVars, kbVars, visionVars>>

\* the HTTP functions before they are called
BatchIdle ==
    /\ handler = ""
    /\ article_ids = <<>>
    /\ faults = <<>>
    /\ attempted = <<>>
    /\ stage = 0
    /\ results = <<>>
    /\ response = <<>>

\* the agent service before a request
StreamIdle ==
    /\ events = <<>>
    /\ full_response = ""
    /\ agent_out = <<>>
    /\ fail_at = 0
    /\ streaming = FALSE
    /\ taken = 0
    /\ pending = <<>>

\* KBAgent before a call
KbIdle ==
    /\ pending_citations = <<>>
    /\ chat_calls = <<>>

\* the middleware before it is invoked
VisionIdle ==
    /\ messages = <<>>
    /\ image_items = <<>>
    /\ seen_paths = {}
    /\ blobs = {}
    /\ vm = 0
    /\ vc = 0
    /\ next_calls = 0

\* the services before they are called
AppIdle == BatchIdle /\ StreamIdle /\ KbIdle /\ VisionIdle

\* fn_index before it is called
IndexIdle ==
    /\ markdown = ""
    /\ hpos = 0
    /\ headers = <<>>
    /\ article_title = ""
    /\ sections = <<>>
    /\ chunks = <<>>
    /\ current_h2 = ""
    /\ ci = 0
    /\ article_id = ""
    /\ search_index = <<>>
    /\ runs = 0

\* the services and fn_index before they are called
FnIndexIdle == AppIdle /\ IndexIdle


(***************************************************************************)
(* Bounds of the model.                                                    *)
(***************************************************************************)
MaxLinkSegs == 3    \* segments of a text handed to recover_links alone
MaxLines == 2       \* lines of a text handed to insert_image_blocks
MaxLinks == 2       \* records of a link map
MaxRecs == 3        \* records of an image map

(***************************************************************************)
(* Characters and strings.                                                 *)
(***************************************************************************)
LowerLetters == "abcdefghijklmnopqrstuvwxyz"
UpperLetters == "ABCDEFGHIJKLMNOPQRSTUVWXYZ"
Digits == "0123456789"

CharAt(s, i) == SubSeq(s, i, i)

CharsOf(s) == {CharAt(s, i) : i \in 1..Len(s)}

\* \w of the re module, on the characters used here
WordChars == CharsOf(LowerLetters) \cup CharsOf(UpperLetters) \cup CharsOf(Digits) \cup {"_"}

IsWordChar(c) == c \in WordChars

\* \s of the re module (a non-breaking space is whitespace too; "\t" stands for it)
IsSpace(c) == c \in {" ", "\n", "\t", "\r", "\f"}

\* str.lower() on one character
LowerOf == [c \in CharsOf(UpperLetters) |->
               CharAt(LowerLetters, CHOOSE i \in 1..Len(UpperLetters) : CharAt(UpperLetters, i) = c)]

LowerChar(c) == IF c \in DOMAIN LowerOf THEN LowerOf[c] ELSE c

\* str.lower()
RECURSIVE Lower(_)
Lower(s) == IF s = "" THEN "" ELSE LowerChar(CharAt(s, 1)) \o Lower(SubSeq(s, 2, Len(s)))

\* s[i:i+len(t)] == t, with i counted from 1
StartsAt(s, i, t) == i >= 1 /\ i + Len(t) - 1 <= Len(s) /\ SubSeq(s, i, i + Len(t) - 1) = t

\* \b at the gap before s[p]
WordBoundary(s, p) ==
    (p > 1 /\ p - 1 <= Len(s) /\ IsWordChar(CharAt(s, p - 1)))
        # (p >= 1 /\ p <= Len(s) /\ IsWordChar(CharAt(s, p)))

\* str.find(c, from): index of the first c at or after `from`, 0 when none
Find(s, c, from) ==
    LET hits == {i \in from..Len(s) : CharAt(s, i) = c}
    IN  IF hits = {} THEN 0 ELSE CHOOSE i \in hits : \A j \in hits : i <= j

RECURSIVE Concat(_)
Concat(ss) == IF ss = <<>> THEN "" ELSE Head(ss) \o Concat(Tail(ss))

\* every sequence over S of length at most n
SeqsUpTo(S, n) == UNION {[1..k -> S] : k \in 0..n}

(***************************************************************************)
(* recover_links, fn_convert/merge.py and fn_convert_mistral/merge.py      *)
(***************************************************************************)

\* (?<!\[)text(?!\]\() matches at i
CuPatternAt(s, i, text) ==
    /\ StartsAt(s, i, text)
    /\ ~(i > 1 /\ CharAt(s, i - 1) = "[")
    /\ ~StartsAt(s, i + Len(text), "](")

\* (?<!\[)\btext\b(?!\]\() matches at i, each \b present only at a word-character end
MistralPatternAt(s, i, text) ==
    /\ StartsAt(s, i, text)
    /\ ~(i > 1 /\ CharAt(s, i - 1) = "[")
    /\ IsWordChar(CharAt(text, 1)) => WordBoundary(s, i)
    /\ IsWordChar(CharAt(text, Len(text))) => WordBoundary(s, i + Len(text))
    /\ ~StartsAt(s, i + Len(text), "](")

PatternAt(v, s, i, text) ==
    IF v = "mistral" THEN MistralPatternAt(s, i, text) ELSE CuPatternAt(s, i, text)

\* re.search: the leftmost start at or after i where the pattern matches, 0 when none
LinkSearchFrom(v, s, i, text) ==
    LET hits == {j \in i..(Len(s) - Len(text) + 1) : PatternAt(v, s, j, text)}
    IN  IF hits = {} THEN 0 ELSE CHOOSE j \in hits : \A k \in hits : j <= k

\* a search that returns the rightmost match
LinkSearch_Rightmost(v, s, text) ==
    LET M == {i \in 1..Len(s) : PatternAt(v, s, i, text)}
    IN  IF M = {} THEN 0 ELSE CHOOSE i \in M : \A j \in M : j <= i

LinkSearch(v, s, text) == LinkSearchFrom(v, s, 1, text)

\* f"[{text}]({url})"
LinkReplacement(text, url) == "[" \o text \o "](" \o url \o ")"

\* one iteration of the loop of recover_links over the record rec = <<text, url>>
RecoverLink(v, s, rec) ==
    LET text == rec[1]
        url == rec[2]
        m == LinkSearch(v, s, text)
    IN  IF text = "" \/ url = "" THEN s
        ELSE IF m # 0
             THEN SubSeq(s, 1, m - 1) \o LinkReplacement(text, url)
                      \o SubSeq(s, m + Len(text), Len(s))
             ELSE s

RECURSIVE RecoverLinksFrom(_, _, _, _)
RecoverLinksFrom(v, s, lm, k) ==
    IF k > Len(lm) THEN s ELSE RecoverLinksFrom(v, RecoverLink(v, s, lm[k]), lm, k + 1)

\* recover_links(markdown, link_map)
RecoverLinks(v, s, lm) == RecoverLinksFrom(v, s, lm, 1)

(***************************************************************************)
(* insert_image_blocks, fn_convert/merge.py                                *)
(***************************************************************************)
MinSearchLen == 5
MaxSearchWords == 15

\* the first index at or after i that holds no whitespace (Len(s) + 1 when none)
RECURSIVE SkipSpaces(_, _)
SkipSpaces(s, i) ==
    IF i <= Len(s) /\ IsSpace(CharAt(s, i)) THEN SkipSpaces(s, i + 1) ELSE i

\* re.sub(r"[\s\xa0]+", " ", s), from index i on
RECURSIVE CollapseFrom(_, _)
CollapseFrom(s, i) ==
    IF i > Len(s) THEN ""
    ELSE IF IsSpace(CharAt(s, i)) THEN " " \o CollapseFrom(s, SkipSpaces(s, i))
    ELSE CharAt(s, i) \o CollapseFrom(s, i + 1)

CollapseWhitespace(s) == CollapseFrom(s, 1)

\* the last index at or before i that holds no whitespace (0 when none)
RECURSIVE SkipSpacesBack(_, _)
SkipSpacesBack(s, i) ==
    IF i >= 1 /\ IsSpace(CharAt(s, i)) THEN SkipSpacesBack(s, i - 1) ELSE i

\* str.strip()
Strip(s) == SubSeq(s, SkipSpaces(s, 1), SkipSpacesBack(s, Len(s)))

\* re.sub of the emphasis markers by "": the class holds "*", "_" and the backquote;
\* a backquote cannot be written in a string of this language and is not in the alphabet
EmphasisMarkers == {"*", "_"}

RECURSIVE RemoveMarkers(_)
RemoveMarkers(s) ==
    IF s = "" THEN ""
    ELSE (IF CharAt(s, 1) \in EmphasisMarkers THEN "" ELSE CharAt(s, 1))
             \o RemoveMarkers(SubSeq(s, 2, Len(s)))

\* _normalize_for_match
NormalizeForMatch(text) == RemoveMarkers(Lower(Strip(CollapseWhitespace(text))))

\* the first index at or after i that holds whitespace (Len(s) + 1 when none)
RECURSIVE SkipWord(_, _)
SkipWord(s, i) ==
    IF i <= Len(s) /\ ~IsSpace(CharAt(s, i)) THEN SkipWord(s, i + 1) ELSE i

\* str.split(), from index i on: the maximal runs of non-whitespace
RECURSIVE SplitFrom(_, _)
SplitFrom(s, i) ==
    LET b == SkipSpaces(s, i)
        e == SkipWord(s, b)
    IN  IF b > Len(s) THEN <<>> ELSE <<SubSeq(s, b, e - 1)>> \o SplitFrom(s, e)

Split(s) == SplitFrom(s, 1)

\* a search that keeps every word of the anchor
LastWords_All(words) == words

\* words[-15:] when there are more than 15 words
LastWords(words) ==
    IF Len(words) > MaxSearchWords
    THEN SubSeq(words, Len(words) - MaxSearchWords + 1, Len(words))
    ELSE words

\* The pattern r"\s+".join(re.escape(w) for w in words), under re.IGNORECASE, tried
\* at index i from word k on: the index after the match, or 0 when it does not match.
\* A word holds no whitespace, so the greedy \s+ takes the whole whitespace run.
\* a literal word under re.IGNORECASE at index i
WordAt(md, i, w) ==
    /\ i + Len(w) - 1 <= Len(md)
    /\ \A j \in 1..Len(w) : LowerChar(CharAt(md, i + j - 1)) = LowerChar(CharAt(w, j))

RECURSIVE WordsMatchEnd(_, _, _, _)
WordsMatchEnd(md, i, words, k) ==
    IF k > Len(words) THEN i
    ELSE LET e == i + Len(words[k])
         IN  IF ~WordAt(md, i, words[k]) THEN 0
             ELSE IF k = Len(words) THEN e
             ELSE IF e <= Len(md) /\ IsSpace(CharAt(md, e))
                  THEN WordsMatchEnd(md, SkipSpaces(md, e), words, k + 1)
                  ELSE 0

\* re.search(pattern, markdown, re.IGNORECASE): <<start, end>> of the leftmost match,
\* end being the index after it, or <<0, 0>> when there is none
RECURSIVE AnchorSearchFrom(_, _, _)
AnchorSearchFrom(md, i, words) ==
    IF i > Len(md) + 1 THEN <<0, 0>>
    ELSE LET e == WordsMatchEnd(md, i, words, 1)
         IN  IF e # 0 THEN <<i, e>> ELSE AnchorSearchFrom(md, i + 1, words)

AnchorSearch(md, words) == AnchorSearchFrom(md, 1, words)

\* AppendBlock with a single line break before the block
AppendBlock_SingleNewline(md, block) == md \o "\n" \o block

\* the branch of _insert_after_text that appends at the end
AppendBlock(md, block) == md \o "\n\n" \o block

\* InsertAfterText with the slice after the block taken one character too far
InsertAfterText_OverwritesNewline(md, search_text, block) ==
    LET norm_search == NormalizeForMatch(search_text)
        words == LastWords(Split(norm_search))
        match == AnchorSearch(md, words)
        next_newline == Find(md, "\n", match[2])
        insert_pos == IF next_newline = 0 THEN Len(md) + 1 ELSE next_newline
    IN  IF Len(norm_search) < MinSearchLen THEN AppendBlock(md, block)
        ELSE IF match[1] # 0
             THEN SubSeq(md, 1, insert_pos - 1) \o "\n\n" \o block
                      \o SubSeq(md, insert_pos + 1, Len(md))
             ELSE AppendBlock(md, block)

\* _insert_after_text(markdown, search_text, block)
InsertAfterText(md, search_text, block) ==
    LET norm_search == NormalizeForMatch(search_text)
        words == LastWords(Split(norm_search))
        match == AnchorSearch(md, words)
        next_newline == Find(md, "\n", match[2])
        insert_pos == IF next_newline = 0 THEN Len(md) + 1 ELSE next_newline
    IN  IF Len(norm_search) < MinSearchLen THEN AppendBlock(md, block)
        ELSE IF match[1] # 0
             THEN SubSeq(md, 1, insert_pos - 1) \o "\n\n" \o block
                      \o SubSeq(md, insert_pos, Len(md))
             ELSE AppendBlock(md, block)

\* the first line of an image block
BlockHeader(stem) == "> **[Image: " \o stem \o "](images/" \o stem \o ".png)**"

\* _format_image_block(stem, analysis)
FormatImageBlock(stem, analysis) ==
    BlockHeader(stem)
        \o (IF analysis.description # "" THEN "\n> " \o analysis.description ELSE "")

NoAnalysis == [filename_stem |-> "", description |-> "", missing |-> TRUE]

\* analysis_by_stem.get(stem): the last analysis of the list with that stem
RECURSIVE AnalysisByStem(_, _)
AnalysisByStem(analyses, stem) ==
    IF analyses = <<>> THEN NoAnalysis
    ELSE IF analyses[Len(analyses)].filename_stem = stem THEN analyses[Len(analyses)]
    ELSE AnalysisByStem(SubSeq(analyses, 1, Len(analyses) - 1), stem)

HasAnalysis(analyses, stem) == AnalysisByStem(analyses, stem) # NoAnalysis

\* InsertImage that places a stem only once: a block already in the text is not repeated
InsertImage_OncePerStem(md, rec, analyses) ==
    LET analysis == AnalysisByStem(analyses, rec[2])
    IN  IF analysis = NoAnalysis THEN md
        ELSE IF \E i \in 1..Len(md) : StartsAt(md, i, BlockHeader(rec[2])) THEN md
        ELSE InsertAfterText(md, rec[1], FormatImageBlock(rec[2], analysis))

\* InsertImage that places an image without analysis with a placeholder description
InsertImage_PlaceholderOnMissing(md, rec, analyses) ==
    LET analysis == AnalysisByStem(analyses, rec[2])
    IN  IF analysis = NoAnalysis
        THEN InsertAfterText(md, rec[1], BlockHeader(rec[2]) \o "\n> No description available.")
        ELSE InsertAfterText(md, rec[1], FormatImageBlock(rec[2], analysis))

\* one iteration of the loop of insert_image_blocks over rec = <<preceding_text, stem>>
InsertImage(md, rec, analyses) ==
    LET analysis == AnalysisByStem(analyses, rec[2])
    IN  IF analysis = NoAnalysis THEN md
        ELSE InsertAfterText(md, rec[1], FormatImageBlock(rec[2], analysis))

\* the loop of insert_image_blocks with the k first records still to process
RECURSIVE InsertImageBlocksFrom(_, _, _, _)
InsertImageBlocksFrom(md, im, analyses, k) ==
    IF k = 0 THEN md
    ELSE InsertImageBlocksFrom(InsertImage(md, im[k], analyses), im, analyses, k - 1)

\* insert_image_blocks(markdown, image_map, image_analyses)
InsertImageBlocks(md, im, analyses) == InsertImageBlocksFrom(md, im, analyses, Len(im))

(***************************************************************************)
(* Inputs.                                                                 *)
(***************************************************************************)

\* pieces a text handed to recover_links is made of: a phrase, a letter that makes the
\* phrase part of a longer word, a space, the two ends of an existing link, punctuation
LinkSegs == {"Tool", "s", " ", "[", "](u)", "!"}

LinkTexts == {Concat(q) : q \in SeqsUpTo(LinkSegs, MaxLinkSegs)}

\* link records: a URL that holds the link text, a phrase, a text ending in punctuation,
\* a record without URL
LinkRecs == {<<"Tool", "x/Tool">>, <<"Tool s", "v">>, <<"Tool!", "w">>, <<"Tool", "">>}

LinkMaps == SeqsUpTo(LinkRecs, MaxLinks)

\* lines a text handed to insert_image_blocks is made of
Lines == {"Open it", " tool", "x", ""}

RECURSIVE JoinLines(_)
JoinLines(q) ==
    IF q = <<>> THEN ""
    ELSE IF Len(q) = 1 THEN q[1]
    ELSE q[1] \o "\n" \o JoinLines(Tail(q))

ImageTexts == {JoinLines(q) : q \in SeqsUpTo(Lines, MaxLines)}

\* image records: an anchor found across a line break (for two images), an anchor found
\* on one line (written with emphasis markers, and for an image without analysis), an
\* anchor too short, an anchor found in no line of these texts
ImageRecs ==
    { <<"it tool", "k1">>, <<"it tool", "k2">>, <<"*Open* it", "k4">>,
      <<"Open it", "k3">>, <<"tool", "k1">>, <<"Close it", "k2">> }

Stems == {"k1", "k2", "k3", "k4"}

ImageMaps == SeqsUpTo(ImageRecs, MaxRecs)

\* the dataclass ImageAnalysisResult
ImageAnalysisResult(stem, description, ui_elements, navigation_path) ==
    [filename_stem |-> stem, description |-> description,
     ui_elements |-> ui_elements, navigation_path |-> navigation_path]

\* an analysis with the defaults of the dataclass for ui_elements and navigation_path
Analysis(stem, description) == ImageAnalysisResult(stem, description, <<>>, "")

\* lists of analyses: one per image but k3, and a list with two analyses of k1 and none
\* of the others
AnalysisLists ==
    { <<Analysis("k1", "Close it"), Analysis("k2", ""), Analysis("k4", "x")>>,
      <<Analysis("k1", "old"), Analysis("k1", "Close it")>> }

(***************************************************************************)
(* run() of fn_convert: recover_links, then insert_image_blocks.           *)
(***************************************************************************)

\* one iteration of `for text, url in link_map`
RecoverLinksStep ==
    /\ pc = "recover_links"
    /\ li < Len(link_map)
    /\ prev' = result
    /\ result' = RecoverLink(variant, result, link_map[li + 1])
    /\ li' = li + 1
    /\ UNCHANGED <<appVars, chunkVars, indexVars, markerVars, parserVars, variant, cu_markdown, link_map, image_map, image_analyses, linked, ii, pc>>

\* a return that strips the text
RecoverLinksReturn_Strips ==
    /\ pc = "recover_links"
    /\ li = Len(link_map)
    /\ linked' = Strip(result)
    /\ pc' = "linked"
    /\ UNCHANGED <<appVars, chunkVars, indexVars, markerVars, parserVars, variant, cu_markdown, link_map, image_map, image_analyses, result, prev, li, ii>>

\* `return result` of recover_links
RecoverLinksReturn ==
    /\ pc = "recover_links"
    /\ li = Len(link_map)
    /\ linked' = result
    /\ pc' = "linked"
    /\ UNCHANGED <<appVars, chunkVars, indexVars, markerVars, parserVars, variant, cu_markdown, link_map, image_map, image_analyses, result, prev, li, ii>>

\* the call of insert_image_blocks with the text recover_links returned
InsertImageBlocksCall ==
    /\ pc = "linked"
    /\ result' = linked
    /\ prev' = linked
    /\ ii' = Len(image_map)
    /\ pc' = "insert_image_blocks"
    /\ UNCHANGED <<appVars, chunkVars, indexVars, markerVars, parserVars, variant, cu_markdown, link_map, image_map, image_analyses, linked, li>>

\* one iteration of `for preceding_text, stem in reversed(image_map)`
InsertImageStep ==
    /\ pc = "insert_image_blocks"
    /\ ii > 0
    /\ prev' = result
    /\ result' = InsertImage(result, image_map[ii], image_analyses)
    /\ ii' = ii - 1
    /\ UNCHANGED <<appVars, chunkVars, indexVars, markerVars, parserVars, variant, cu_markdown, link_map, image_map, image_analyses, linked, li, pc>>

\* `return result` of insert_image_blocks
InsertImageBlocksReturn ==
    /\ pc = "insert_image_blocks"
    /\ ii = 0
    /\ pc' = "done"
    /\ UNCHANGED <<appVars, chunkVars, indexVars, markerVars, parserVars, variant, cu_markdown, link_map, image_map, image_analyses, linked,
                   result, prev, li, ii>>

\* recover_links alone, in both merge modules
InitLinks ==
    /\ FnIndexIdle
    /\ source_filenames = <<>>
    /\ descriptions = <<>>
    /\ article = ""
    /\ mi = 0
    /\ staged = {}
    /\ copied = {}
    /\ dom = <<>>
    /\ scan = 0
    /\ variant \in {"cu", "mistral"}
    /\ cu_markdown \in LinkTexts
    /\ link_map \in LinkMaps
    /\ image_map = <<>>
    /\ image_analyses = <<>>
    /\ linked = ""
    /\ result = cu_markdown
    /\ prev = cu_markdown
    /\ li = 0
    /\ ii = 0
    /\ pc = "recover_links"

NextLinks == RecoverLinksStep \/ RecoverLinksReturn

SpecLinks == InitLinks /\ [][NextLinks]_vars

\* insert_image_blocks alone
InitImages ==
    /\ FnIndexIdle
    /\ source_filenames = <<>>
    /\ descriptions = <<>>
    /\ article = ""
    /\ mi = 0
    /\ staged = {}
    /\ copied = {}
    /\ dom = <<>>
    /\ scan = 0
    /\ variant = "cu"
    /\ cu_markdown = ""
    /\ link_map = <<>>
    /\ image_map \in ImageMaps
    /\ image_analyses \in AnalysisLists
    /\ linked \in ImageTexts
    /\ result = linked
    /\ prev = linked
    /\ li = 0
    /\ ii = Len(image_map)
    /\ pc = "insert_image_blocks"

NextImages == InsertImageStep \/ InsertImageBlocksReturn

SpecImages == InitImages /\ [][NextImages]_vars

\* run(): the text of the extraction, the link map and the image map of one article
PipeLinkRecs == {<<"tool", "x/tool">>, <<"Open it", "v">>}

PipeImageRecs == {<<"it tool", "k1">>, <<"*Open* it", "k4">>, <<"Open it", "k3">>}

Init ==
    /\ FnIndexIdle
    /\ source_filenames = <<>>
    /\ descriptions = <<>>
    /\ article = ""
    /\ mi = 0
    /\ staged = {}
    /\ copied = {}
    /\ dom = <<>>
    /\ scan = 0
    /\ variant = "cu"
    /\ cu_markdown \in ImageTexts
    /\ link_map \in SeqsUpTo(PipeLinkRecs, MaxLinks)
    /\ image_map \in SeqsUpTo(PipeImageRecs, MaxRecs)
    /\ image_analyses \in AnalysisLists
    /\ linked = ""
    /\ result = cu_markdown
    /\ prev = cu_markdown
    /\ li = 0
    /\ ii = 0
    /\ pc = "recover_links"

Next ==
    \/ RecoverLinksStep
    \/ RecoverLinksReturn
    \/ InsertImageBlocksCall
    \/ InsertImageStep
    \/ InsertImageBlocksReturn

Spec == Init /\ [][Next]_vars

(***************************************************************************)
(* Operators the properties are stated with.                               *)
(***************************************************************************)

\* a is b with characters removed: every character of a, in order, is in b
RECURSIVE IsSubsequenceFrom(_, _, _, _)
IsSubsequenceFrom(a, i, b, j) ==
    IF i > Len(a) THEN TRUE
    ELSE IF j > Len(b) THEN FALSE
    ELSE IF CharAt(a, i) = CharAt(b, j) THEN IsSubsequenceFrom(a, i + 1, b, j + 1)
    ELSE IsSubsequenceFrom(a, i, b, j + 1)

IsSubsequence(a, b) == IsSubsequenceFrom(a, 1, b, 1)

EndsWith(s, t) == Len(t) <= Len(s) /\ SubSeq(s, Len(s) - Len(t) + 1, Len(s)) = t

Occurrences(s, t) == {i \in 1..Len(s) : StartsAt(s, i, t)}

Min(S) == CHOOSE x \in S : \A y \in S : x <= y

\* index of the first occurrence of t in s, 0 when there is none
FirstIndex(s, t) == IF Occurrences(s, t) = {} THEN 0 ELSE Min(Occurrences(s, t))

\* b is a with ins inserted at index p
InsertedAt(a, b, p, ins) == b = SubSeq(a, 1, p - 1) \o ins \o SubSeq(a, p, Len(a))

\* the lines of s
RECURSIVE SplitLinesFrom(_, _)
SplitLinesFrom(s, i) ==
    LET n == Find(s, "\n", i)
    IN  IF n = 0 THEN <<SubSeq(s, i, Len(s))>>
        ELSE <<SubSeq(s, i, n - 1)>> \o SplitLinesFrom(s, n + 1)

SplitLines(s) == SplitLinesFrom(s, 1)

IsHeaderLine(line) == \E stem \in Stems : line = BlockHeader(stem)

CountHeaderLines(s) ==
    Cardinality({k \in 1..Len(SplitLines(s)) : IsHeaderLine(SplitLines(s)[k])})

\* the record the last iteration of recover_links processed
LastLinkRec == link_map[li]

LinkStepped == li >= 1 /\ pc \in {"recover_links", "linked"}

\* the record the last iteration of insert_image_blocks processed
LastImageRec == image_map[ii + 1]

ImageStepped == ii < Len(image_map) /\ pc \in {"insert_image_blocks", "done"}

Analysed(k) == HasAnalysis(image_analyses, image_map[k][2])

BlockOf(rec) == FormatImageBlock(rec[2], AnalysisByStem(image_analyses, rec[2]))

SearchWords(anchor) == LastWords(Split(NormalizeForMatch(anchor)))

\* the anchor is placed by the fallback in the document doc
FallsBack(doc, anchor) ==
    \/ Len(NormalizeForMatch(anchor)) < MinSearchLen
    \/ AnchorSearch(doc, SearchWords(anchor))[1] = 0

\* the document as it stands when record k is processed: the records after k are placed
DocWhenProcessed(k) ==
    InsertImageBlocks(linked, SubSeq(image_map, k + 1, Len(image_map)), image_analyses)

\* the records of the image map that have an analysis
AnalysedRecords == SelectSeq(image_map, LAMBDA r : HasAnalysis(image_analyses, r[2]))

(***************************************************************************)
(* Properties of insert_image_blocks (specification SpecImages).           *)
(***************************************************************************)

\* C2 as stated: when insert_image_blocks has returned, the output ends with the block of
\* every record that has an analysis and whose anchor normalises to fewer than five
\* characters or is not found in the text.
C2_OutputEndsWithEveryFallbackBlock ==
    pc = "done" =>
        \A k \in 1..Len(image_map) :
            (Analysed(k) /\ FallsBack(linked, image_map[k][1]))
                => EndsWith(result, BlockOf(image_map[k]))

\* C2: a record that has an analysis and whose anchor normalises to fewer than five
\* characters, or is not found in the document as it stands when the record is processed,
\* is never dropped: its block is appended, after a blank line, at the end of that
\* document; the returned text ends with the block when no record before it in the map
\* has an analysis.
C2_FallbackAppendsAtEnd ==
    /\ (ImageStepped /\ HasAnalysis(image_analyses, LastImageRec[2])
            /\ FallsBack(prev, LastImageRec[1]))
          => result = prev \o "\n\n" \o BlockOf(LastImageRec)
    /\ pc = "done" =>
          \A k \in 1..Len(image_map) :
              (/\ Analysed(k)
               /\ FallsBack(DocWhenProcessed(k), image_map[k][1])
               /\ \A j \in 1..(k - 1) : ~Analysed(j))
                  => EndsWith(result, BlockOf(image_map[k]))

\* a short anchor and an anchor that is not in the text were both placed by the fallback,
\* after a record that was placed by its anchor
C2_Witness ==
    /\ pc = "done"
    /\ Len(image_map) = 3
    /\ linked = "Open it"
    /\ image_map[1] = <<"tool", "k1">>
    /\ image_map[2] = <<"Close it", "k2">>
    /\ image_map[3] = <<"Open it", "k3">>
    /\ Analysed(1) /\ Analysed(2)
    /\ EndsWith(result, "\n\n" \o BlockOf(image_map[1]))

\* C3: while insert_image_blocks runs on a text without image blocks, the number of lines
\* of the text that are a block header equals the number of processed records that have
\* an analysis; when it returns, it equals the number of records of the map that have an
\* analysis. Every iteration is defined (no step is left without a successor).
C3_OneHeaderPerAnalysedRecord ==
    (pc \in {"insert_image_blocks", "done"} /\ CountHeaderLines(linked) = 0) =>
        CountHeaderLines(result)
            = Cardinality({k \in (ii + 1)..Len(image_map) : Analysed(k)})

\* three records, two of them of the same image and one without analysis, were processed
C3_Witness ==
    /\ pc = "done"
    /\ Len(image_map) = 3
    /\ image_map[1][2] = image_map[3][2]
    /\ Analysed(1)
    /\ ~Analysed(2)
    /\ CountHeaderLines(result) = 2

\* C4 as stated: when insert_image_blocks has returned, two records with an analysis that
\* share an anchor that is found in the text both have their block in the output, after
\* the line of the anchor, and the block of the record that is first in the map comes
\* first. (Stated for records whose stems have one record each, so that a header
\* identifies the block of a record.)
C4_SharedAnchorBlocksInMapOrder ==
    pc = "done" =>
        \A i, j \in 1..Len(image_map) :
            (/\ i < j
             /\ Analysed(i) /\ Analysed(j)
             /\ image_map[i][1] = image_map[j][1]
             /\ \A k \in 1..Len(image_map) :
                    image_map[k][2] \in {image_map[i][2], image_map[j][2]} => k \in {i, j}
             /\ image_map[i][2] # image_map[j][2]
             /\ ~FallsBack(linked, image_map[i][1]))
                =>
                LET hi == FirstIndex(result, BlockOf(image_map[i]))
                    hj == FirstIndex(result, BlockOf(image_map[j]))
                    m == AnchorSearch(linked, SearchWords(image_map[i][1]))
                    nl == Find(linked, "\n", m[2])
                    line_end == IF nl = 0 THEN Len(linked) ELSE nl - 1
                IN  /\ hi > 0
                    /\ hj > 0
                    /\ hi < hj
                    /\ IsSubsequence(SubSeq(linked, 1, line_end), SubSeq(result, 1, hi - 1))

\* C9: a record whose image has no analysis leaves the text as it is, and the returned
\* text is the text insert_image_blocks returns for the map without these records.
C9_MissingAnalysisIsSkipped ==
    /\ (ImageStepped /\ ~HasAnalysis(image_analyses, LastImageRec[2])) => result = prev
    /\ pc = "done" => result = InsertImageBlocks(linked, AnalysedRecords, image_analyses)

\* a record without analysis was skipped between two records that were placed
C9_Witness ==
    /\ pc = "done"
    /\ Len(image_map) = 3
    /\ Analysed(1) /\ ~Analysed(2) /\ Analysed(3)
    /\ image_map[1][2] # image_map[3][2]
    /\ Occurrences(result, BlockHeader(image_map[1][2])) # {}
    /\ Occurrences(result, BlockHeader(image_map[3][2])) # {}
    /\ Occurrences(result, BlockHeader(image_map[2][2])) = {}

(***************************************************************************)
(* Properties of recover_links (specification SpecLinks).                  *)
(***************************************************************************)

\* the positions at which the pattern of the record matches the text
Eligible(v, s, text) == {i \in 1..Len(s) : PatternAt(v, s, i, text)}

\* the span s[a..b-1] lies in the bracket text of a link [..](..) of s
InBracketText(s, a, b) ==
    \E o \in 1..(a - 1), c \in b..Len(s) :
        /\ CharAt(s, o) = "["
        /\ StartsAt(s, c, "](")
        /\ \A k \in (o + 1)..(c - 1) : CharAt(s, k) \notin {"[", "]"}
        /\ \E e \in (c + 2)..Len(s) : CharAt(s, e) = ")"

\* the span s[a..b-1] lies in the URL of a link [..](..) of s
InUrl(s, a, b) ==
    \E c \in 1..(a - 2), e \in b..Len(s) :
        /\ StartsAt(s, c, "](")
        /\ CharAt(s, e) = ")"
        /\ \A k \in (c + 2)..(e - 1) : CharAt(s, k) \notin {")", " ", "\n"}
        /\ \E o \in 1..(c - 1) : CharAt(s, o) = "["

InsideLink(s, a, b) == InBracketText(s, a, b) \/ InUrl(s, a, b)

\* the last iteration wrapped an occurrence of its text
LinkWrapped == LinkStepped /\ result # prev

\* C5 as stated: the occurrence an iteration of recover_links wraps is never inside a
\* link of the text the iteration works on, neither in its bracket text nor in its URL,
\* links inserted by earlier iterations of the call included.
C5_WrappedOccurrenceOutsideLinks ==
    LinkWrapped =>
        LET m == LinkSearch(variant, prev, LastLinkRec[1])
        IN  ~InsideLink(prev, m, m + Len(LastLinkRec[1]))

\* C6: an iteration of recover_links over a record with text and URL wraps the leftmost
\* occurrence its pattern accepts and nothing else: the text after the iteration is the
\* text before it with "[" before that occurrence and "](url)" after it, so every other
\* occurrence stays as it was; when the pattern accepts no occurrence, or the record has
\* no text or no URL, the text is unchanged.
C6_FirstEligibleOccurrenceOnly ==
    LinkStepped =>
        LET text == LastLinkRec[1]
            url == LastLinkRec[2]
            E == Eligible(variant, prev, text)
        IN  IF text = "" \/ url = "" \/ E = {}
            THEN result = prev
            ELSE result = SubSeq(prev, 1, Min(E) - 1) \o "[" \o text \o "](" \o url \o ")"
                              \o SubSeq(prev, Min(E) + Len(text), Len(prev))

\* the text had two occurrences the pattern accepts and the first one was wrapped
C6_Witness ==
    /\ LinkStepped
    /\ LastLinkRec[2] # ""
    /\ Cardinality(Eligible(variant, prev, LastLinkRec[1])) >= 2
    /\ result # prev
    /\ StartsAt(result, Min(Eligible(variant, prev, LastLinkRec[1])), "[" \o LastLinkRec[1] \o "](")

\* C7 as stated: in both variants, the occurrence an iteration of recover_links wraps is a
\* whole word: where the link text begins or ends with a word character, the character
\* of the text next to it on that side is not a word character.
C7_WrappedOccurrenceIsWholeWord ==
    LinkWrapped =>
        LET text == LastLinkRec[1]
            m == LinkSearch(variant, prev, text)
            e == m + Len(text)
        IN  /\ (IsWordChar(CharAt(text, 1)) /\ m > 1) => ~IsWordChar(CharAt(prev, m - 1))
            /\ (IsWordChar(CharAt(text, Len(text))) /\ e <= Len(prev))
                   => ~IsWordChar(CharAt(prev, e))

(***************************************************************************)
(* Properties of run(): recover_links, then insert_image_blocks            *)
(* (specification Spec).                                                   *)
(***************************************************************************)

\* the iteration of recover_links left the text alone or put "[" and "](url)" around one
\* occurrence of the text of its record
OnlyWrapped(before, after, rec) ==
    \/ after = before
    \/ \E p \in 1..Len(before) :
          /\ StartsAt(before, p, rec[1])
          /\ after = SubSeq(before, 1, p - 1) \o "[" \o rec[1] \o "](" \o rec[2] \o ")"
                         \o SubSeq(before, p + Len(rec[1]), Len(before))

\* the iteration of insert_image_blocks left the text alone or put a blank line and the
\* block of its record at one point of the text
OnlyInserted(before, after, rec) ==
    \/ after = before
    \/ \E p \in 1..(Len(before) + 1) : InsertedAt(before, after, p, "\n\n" \o BlockOf(rec))

\* C1: no step deletes or reorders text: an iteration of recover_links only puts the
\* wrapper "[", "](url)" around one span, an iteration of insert_image_blocks only puts a
\* blank line and a block at one point, so taking the wrappers and blocks out again gives
\* the text back, and every character of the original text is in the text at every step,
\* in the original order.
C1_NonDestruction ==
    /\ LinkStepped => OnlyWrapped(prev, result, LastLinkRec)
    /\ ImageStepped => OnlyInserted(prev, result, LastImageRec)
    /\ IsSubsequence(cu_markdown, result)
    /\ pc \in {"linked", "insert_image_blocks", "done"} => IsSubsequence(cu_markdown, linked)

\* a link was recovered, then a block was inserted after the line of its anchor, before
\* the end of the text
C1_Witness ==
    /\ pc = "done"
    /\ linked # cu_markdown
    /\ Len(image_map) = 1
    /\ Analysed(1)
    /\ ~FallsBack(linked, image_map[1][1])
    /\ result # linked
    /\ ~EndsWith(result, BlockOf(image_map[1]))

\* C8: recover_links with an empty link map returns the text it was given, and
\* insert_image_blocks with an empty image map returns the text it was given, whatever
\* the analyses are.
C8_EmptyMapsAreNoOps ==
    /\ (pc \in {"linked", "insert_image_blocks", "done"} /\ link_map = <<>>)
          => linked = cu_markdown
    /\ (pc = "done" /\ image_map = <<>>) => result = linked

\* both functions returned on empty maps, on a text that begins with white space
C8_Witness ==
    /\ pc = "done"
    /\ link_map = <<>>
    /\ image_map = <<>>
    /\ image_analyses # <<>>
    /\ cu_markdown = " tool"
    /\ result = cu_markdown

(***************************************************************************)
(* html_parser.py: the parsed HTML is the sequence of its nodes in         *)
(* document order; a node has a tag ("#text" for a NavigableString), the   *)
(* index of its parent (0 is the BeautifulSoup object), and, as they       *)
(* apply, its class attribute, its string, its src and its alt.            *)
(***************************************************************************)

MaxNodes == 5

Node(tag, cls, text, src, alt) ==
    [tag |-> tag, cls |-> cls, text |-> text, src |-> src, alt |-> alt, parent |-> 0]

Body == Node("body", "", "", "", "")

LongText == "Click Save now"

NodeShapes ==
    { Node("div", "", "", "", ""),
      Node("li", "step", "", "", ""),
      Node("span", "ph cmd", "", "", ""),
      Node("#text", "", LongText, "", ""),
      Node("#text", "", "Note", "", ""),
      Node("#text", "", " \n", "", ""),
      Node("img", "", "", "a/k1.png", ""),
      Node("img", "", "", "k1.image", LongText),
      Node("img", "", "", "", "") }

ContainerTags == {"body", "div", "li", "span"}

\* the ancestors of node i, nearest first (Tag.parents without the BeautifulSoup object)
RECURSIVE Parents(_, _)
Parents(d, i) ==
    IF d[i].parent = 0 THEN <<>> ELSE <<d[i].parent>> \o Parents(d, d[i].parent)

Range(q) == {q[k] : k \in 1..Len(q)}

IsDescendant(d, j, i) == i \in Range(Parents(d, j))

\* the nodes are in document order: the parent of a node is an element that is still open
\* after the node before it (that node, or one of its ancestors)
WellFormed(d) ==
    /\ d[1] = Body
    /\ \A i \in 2..Len(d) :
           /\ d[i].parent \in Range(Parents(d, i - 1)) \cup {i - 1}
           /\ d[d[i].parent].tag \in ContainerTags

\* the document of n nodes with the given shapes and parents
DomOf(n, shapes, parents) ==
    [i \in 1..n |-> IF i = 1 THEN Body ELSE [shapes[i] EXCEPT !.parent = parents[i]]]

\* element.find_all("img") in document order; the BeautifulSoup object is element 0
RECURSIVE FindAllImgFrom(_, _, _)
FindAllImgFrom(d, i, j) ==
    IF j > Len(d) THEN <<>>
    ELSE (IF d[j].tag = "img" /\ (i = 0 \/ IsDescendant(d, j, i)) THEN <<j>> ELSE <<>>)
             \o FindAllImgFrom(d, i, j + 1)

FindAllImg(d, i) == FindAllImgFrom(d, i, i + 1)

\* element.get_text()
RECURSIVE GetTextFrom(_, _, _)
GetTextFrom(d, i, j) ==
    IF j > Len(d) THEN ""
    ELSE (IF d[j].tag = "#text" /\ IsDescendant(d, j, i) THEN d[j].text ELSE "")
             \o GetTextFrom(d, i, j + 1)

GetText(d, i) == GetTextFrom(d, i, i + 1)

\* _normalize(text)
Normalize(text) == Strip(CollapseWhitespace(text))

\* text.replace(old, "", 1)
RemoveFirst(text, old) ==
    LET M == {i \in 1..Len(text) : StartsAt(text, i, old)}
    IN  IF old = "" \/ M = {} THEN text
        ELSE LET m == CHOOSE i \in M : \A j \in M : i <= j
             IN  SubSeq(text, 1, m - 1) \o SubSeq(text, m + Len(old), Len(text))

MinMeaningfulLen == 5

RECURSIVE SubtractAlts(_, _, _)
SubtractAlts(d, text, imgs) ==
    IF imgs = <<>> THEN text
    ELSE LET alt == d[Head(imgs)].alt
         IN  SubtractAlts(d,
                          IF alt # "" THEN Strip(RemoveFirst(text, Strip(alt))) ELSE text,
                          Tail(imgs))

\* _is_image_only(element)
IsImageOnly(d, i) ==
    IF d[i].tag = "#text" THEN FALSE
    ELSE Len(SubtractAlts(d, Normalize(GetText(d, i)), FindAllImg(d, i))) < MinMeaningfulLen

MinAnchorLen == 10

SnippetLen == 200

\* text[-200:]
Snippet(text) ==
    IF Len(text) > SnippetLen THEN SubSeq(text, Len(text) - SnippetLen + 1, Len(text)) ELSE text

\* element.previous_siblings, nearest first
RECURSIVE PreviousSiblingsFrom(_, _, _)
PreviousSiblingsFrom(d, i, j) ==
    IF j < 1 THEN <<>>
    ELSE (IF d[j].parent = d[i].parent THEN <<j>> ELSE <<>>) \o PreviousSiblingsFrom(d, i, j - 1)

PreviousSiblings(d, i) == PreviousSiblingsFrom(d, i, i - 1)

\* the loop over previous siblings: <<TRUE, snippet>> when it returns, <<FALSE, "">> when
\* it runs to its end
RECURSIVE ScanSiblings(_, _)
ScanSiblings(d, sibs) ==
    IF sibs = <<>> THEN <<FALSE, "">>
    ELSE LET sibling == Head(sibs)
             text == Normalize(GetText(d, sibling))
         IN  IF d[sibling].tag = "#text" THEN ScanSiblings(d, Tail(sibs))
             ELSE IF IsImageOnly(d, sibling) THEN ScanSiblings(d, Tail(sibs))
             ELSE IF Len(text) > MinAnchorLen THEN <<TRUE, Snippet(text)>>
             ELSE ScanSiblings(d, Tail(sibs))

HasClass(node, word) == \E i \in 1..Len(node.cls) : StartsAt(node.cls, i, word)

\* img.find_parent("li", class_=...): the nearest <li> ancestor with "step" in a class,
\* 0 when there is none
FindStepLi(d, img) ==
    LET lis == SelectSeq(Parents(d, img), LAMBDA a : d[a].tag = "li" /\ HasClass(d[a], "step"))
    IN  IF lis = <<>> THEN 0 ELSE Head(lis)

\* step_li.find("span", class_=...): the first <span> below it with "cmd" in a class,
\* 0 when there is none
RECURSIVE FindCmdFrom(_, _, _)
FindCmdFrom(d, step_li, j) ==
    IF j > Len(d) THEN 0
    ELSE IF d[j].tag = "span" /\ HasClass(d[j], "cmd") /\ IsDescendant(d, j, step_li) THEN j
    ELSE FindCmdFrom(d, step_li, j + 1)

FindCmd(d, step_li) == FindCmdFrom(d, step_li, step_li + 1)

TopLevelTags == {"body", "html", "[document]"}

\* the loop over img.parents of strategy 2: <<TRUE, snippet>> when it returns
RECURSIVE WalkUp(_, _)
WalkUp(d, ancestors) ==
    IF ancestors = <<>> THEN <<FALSE, "">>
    ELSE IF d[Head(ancestors)].tag \in TopLevelTags THEN <<FALSE, "">>
    ELSE LET found == ScanSiblings(d, PreviousSiblings(d, Head(ancestors)))
         IN  IF found[1] THEN found ELSE WalkUp(d, Tail(ancestors))

\* _find_preceding_text(img)
FindPrecedingText(d, img) ==
    LET step_li == FindStepLi(d, img)
        cmd == IF step_li = 0 THEN 0 ELSE FindCmd(d, step_li)
        walked == WalkUp(d, Parents(d, img))
        container == d[img].parent
        fallback == IF container = 0 THEN <<FALSE, "">>
                    ELSE ScanSiblings(d, PreviousSiblings(d, container))
    IN  IF cmd # 0 THEN Normalize(GetText(d, cmd))
        ELSE IF walked[1] THEN walked[2]
        ELSE IF fallback[1] THEN fallback[2]
        ELSE ""

\* the index of the last c in s, 0 when there is none
RECURSIVE FindLast(_, _, _)
FindLast(s, c, i) ==
    IF i < 1 THEN 0 ELSE IF CharAt(s, i) = c THEN i ELSE FindLast(s, c, i - 1)

\* Path(src).stem: the last component of the path without its last suffix
PathStem(src) ==
    LET slash == FindLast(src, "/", Len(src))
        name == SubSeq(src, slash + 1, Len(src))
        dot == FindLast(name, ".", Len(name))
    IN  IF dot <= 1 \/ dot = Len(name) THEN name ELSE SubSeq(name, 1, dot - 1)

\* one iteration of the loop of extract_image_map over the element img
ExtractImage(d, img, res) ==
    LET src == d[img].src
        preceding == FindPrecedingText(d, img)
    IN  IF src = "" THEN res
        ELSE IF preceding # "" THEN Append(res, <<preceding, PathStem(src)>>)
        ELSE res

ExtractImageMap(d) ==
    LET imgs == FindAllImg(d, 0)
        F[k \in 0..Len(imgs)] == IF k = 0 THEN <<>> ELSE ExtractImage(d, imgs[k], F[k - 1])
    IN  F[Len(imgs)]

\* one iteration of `for img in soup.find_all("img")`
ExtractImageStep ==
    /\ pc = "extract_image_map"
    /\ scan < Len(FindAllImg(dom, 0))
    /\ image_map' = ExtractImage(dom, FindAllImg(dom, 0)[scan + 1], image_map)
    /\ scan' = scan + 1
    /\ UNCHANGED <<appVars, chunkVars, indexVars, markerVars, dom, variant, cu_markdown, link_map, image_analyses, linked, result, prev,
                   li, ii, pc>>

\* `return result` of extract_image_map
ExtractImageMapReturn ==
    /\ pc = "extract_image_map"
    /\ scan = Len(FindAllImg(dom, 0))
    /\ pc' = "extracted"
    /\ UNCHANGED <<appVars, chunkVars, indexVars, markerVars, parserVars, variant, cu_markdown, link_map, image_map, image_analyses,
                   linked, result, prev, li, ii>>

InitParser ==
    /\ FnIndexIdle
    /\ \E n \in 1..MaxNodes :
          \E shapes \in [2..n -> NodeShapes] :
              \E parents \in {f \in [2..n -> 1..(MaxNodes - 1)] : \A i \in 2..n : f[i] < i} :
                  /\ dom = DomOf(n, shapes, parents)
                  /\ WellFormed(dom)
    /\ scan = 0
    /\ source_filenames = <<>>
    /\ descriptions = <<>>
    /\ article = ""
    /\ mi = 0
    /\ staged = {}
    /\ copied = {}
    /\ variant = "cu"
    /\ cu_markdown = ""
    /\ link_map = <<>>
    /\ image_map = <<>>
    /\ image_analyses = <<>>
    /\ linked = ""
    /\ result = ""
    /\ prev = ""
    /\ li = 0
    /\ ii = 0
    /\ pc = "extract_image_map"

NextParser == ExtractImageStep \/ ExtractImageMapReturn

SpecParser == InitParser /\ [][NextParser]_vars

\* the <img> elements of the document that have a src, in document order
ImagesWithSource == SelectSeq(FindAllImg(dom, 0), LAMBDA i : dom[i].src # "")

\* C10 as stated: when extract_image_map has returned, its list has one record for every
\* <img> element that has a src, in document order, with the stem of the src; an image
\* for which no anchor is found has a record with an empty anchor.
C10_RecordForEveryImageWithSource ==
    pc = "extracted" =>
        /\ Len(image_map) = Len(ImagesWithSource)
        /\ \A k \in 1..Len(image_map) :
               /\ image_map[k][2] = PathStem(dom[ImagesWithSource[k]].src)
               /\ image_map[k][1] = FindPrecedingText(dom, ImagesWithSource[k])

\* _resolve_image_paths: the stems of the image map, each once, in order of first
\* appearance (the list the image analysis is run on)
RECURSIVE UniqueStemsFrom(_, _, _)
UniqueStemsFrom(im, k, stems) ==
    IF k > Len(im) THEN stems
    ELSE UniqueStemsFrom(im, k + 1,
                         IF im[k][2] \in Range(stems) THEN stems ELSE Append(stems, im[k][2]))

UniqueStems(im) == UniqueStemsFrom(im, 1, <<>>)

\* the number of elements of the sequence q for which q[k] = x
CountOf(q, x) == Cardinality({k \in 1..Len(q) : q[k] = x})

\* the stems of the <img> elements that have a src, in document order
SourceStems == [k \in 1..Len(ImagesWithSource) |-> PathStem(dom[ImagesWithSource[k]].src)]

\* the stems of the records of the image map, in order
RecordStems == [k \in 1..Len(image_map) |-> image_map[k][2]]

\* C11 as stated: when extract_image_map has returned, a stem that k <img> elements refer
\* to has k records, the records are in the order of the elements in the document, and
\* the list of stems handed to the image analysis has every stem of the map once.
C11_OneRecordPerOccurrenceInOrder ==
    pc = "extracted" =>
        /\ \A i \in 1..Len(ImagesWithSource) :
               CountOf(RecordStems, SourceStems[i]) = CountOf(SourceStems, SourceStems[i])
        /\ IsSubsequenceFrom(RecordStems, 1, SourceStems, 1)
        /\ Range(UniqueStems(image_map)) = Range(RecordStems)
        /\ \A i, j \in 1..Len(UniqueStems(image_map)) :
               UniqueStems(image_map)[i] = UniqueStems(image_map)[j] => i = j

(***************************************************************************)
(* fn_convert_mistral/merge.py: _clean_description and the block that      *)
(* merge_article builds for a marker.                                      *)
(***************************************************************************)

\* the first index at or after i that holds no digit
RECURSIVE SkipDigits(_, _)
SkipDigits(s, i) ==
    IF i <= Len(s) /\ CharAt(s, i) \in CharsOf(Digits) THEN SkipDigits(s, i + 1) ELSE i

\* the first index at or after i that holds neither a space nor a tab
RECURSIVE SkipBlanks(_, _)
SkipBlanks(s, i) ==
    IF i <= Len(s) /\ CharAt(s, i) \in {" ", "\t"} THEN SkipBlanks(s, i + 1) ELSE i

SectionWords == <<"description", "uielements", "navigationpath">>

NoMatch == [ok |-> FALSE, header |-> "", end |-> 0]

\* the header alternative of _SECTION_RE at index h, and what follows it: a bold text
\* or one of the three words in any case, then white space, ":" and blanks
SectionHeaderAt(raw, h) ==
    LET star == Find(raw, "*", h + 2)
        bold == /\ StartsAt(raw, h, "**")
                /\ star > h + 2
                /\ StartsAt(raw, star, "**")
        plain == {k \in 1..Len(SectionWords) :
                      /\ h + Len(SectionWords[k]) - 1 <= Len(raw)
                      /\ Lower(SubSeq(raw, h, h + Len(SectionWords[k]) - 1)) = SectionWords[k]}
        header == IF bold THEN SubSeq(raw, h + 2, star - 1)
                  ELSE IF plain # {}
                       THEN LET k == CHOOSE k \in plain : TRUE
                            IN  SubSeq(raw, h, h + Len(SectionWords[k]) - 1)
                       ELSE ""
        after == IF bold THEN star + 2 ELSE h + Len(header)
        colon == SkipSpaces(raw, after)
    IN  IF (bold \/ plain # {}) /\ colon <= Len(raw) /\ CharAt(raw, colon) = ":"
        THEN [ok |-> TRUE, header |-> header, end |-> SkipBlanks(raw, colon + 1)]
        ELSE NoMatch

\* _SECTION_RE matched at index i: the start of the text or a line break, white space,
\* an optional number with a dot, then the header
SectionMatchAt(raw, i) ==
    LET j == SkipSpaces(raw, IF i = 1 THEN 1 ELSE i + 1)
        d == SkipDigits(raw, j)
        h == IF d > j
             THEN (IF d <= Len(raw) /\ CharAt(raw, d) = "." THEN SkipSpaces(raw, d + 1) ELSE 0)
             ELSE j
    IN  IF i > Len(raw) + 1 \/ (i > 1 /\ (i > Len(raw) \/ CharAt(raw, i) # "\n")) THEN NoMatch
        ELSE IF h = 0 \/ h > Len(raw) THEN NoMatch
        ELSE SectionHeaderAt(raw, h)

\* the leftmost match of _SECTION_RE that begins at or after i: <<start, match>>
RECURSIVE SectionSearch(_, _)
SectionSearch(raw, i) ==
    IF i > Len(raw) THEN <<0, NoMatch>>
    ELSE IF SectionMatchAt(raw, i).ok THEN <<i, SectionMatchAt(raw, i)>>
    ELSE SectionSearch(raw, i + 1)

\* str.rstrip(".")
RECURSIVE RStripDots(_)
RStripDots(s) ==
    IF s # "" /\ CharAt(s, Len(s)) = "." THEN RStripDots(SubSeq(s, 1, Len(s) - 1)) ELSE s

\* the loop over the parts of _SECTION_RE.split(raw): the list of <<header, body>> from
\* the match m on, the body of a section reaching to the next match
RECURSIVE SectionsFrom(_, _)
SectionsFrom(raw, m) ==
    LET next == SectionSearch(raw, m.end)
        body_end == IF next[1] = 0 THEN Len(raw) ELSE next[1] - 1
        header == Lower(Strip(m.header))
        body == RStripDots(Strip(SubSeq(raw, m.end, body_end)))
        here == IF header # "" THEN <<<<header, body>>>> ELSE <<>>
    IN  IF next[1] = 0 THEN here ELSE here \o SectionsFrom(raw, next[2])

\* sections.get(key, ""): the last section with that header
RECURSIVE SectionGet(_, _)
SectionGet(secs, key) ==
    IF secs = <<>> THEN ""
    ELSE IF secs[Len(secs)][1] = key THEN secs[Len(secs)][2]
    ELSE SectionGet(SubSeq(secs, 1, Len(secs) - 1), key)

\* `x and x.lower() not in ("none", "n/a", "")`
Meaningful(x) == x # "" /\ Lower(x) \notin {"none", "n/a", ""}

\* _clean_description(raw)
CleanDescription(raw) ==
    LET first == SectionSearch(raw, 1)
        secs == SectionsFrom(raw, first[2])
        description == Strip(SectionGet(secs, "description"))
        ui_elements == Strip(SectionGet(secs, "uielements"))
        nav_path == Strip(SectionGet(secs, "navigationpath"))
    IN  IF first[1] = 0 THEN Strip(raw)
        ELSE IF description = "" THEN Strip(raw)
        ELSE description
                 \o (IF Meaningful(ui_elements) THEN "\n**UI Elements**: " \o ui_elements ELSE "")
                 \o (IF Meaningful(nav_path) THEN "\n**Navigation Path**: " \o nav_path ELSE "")

\* descriptions.get(source_filename, "No description available.")
RECURSIVE DescriptionOf(_, _)
DescriptionOf(descs, filename) ==
    IF descs = <<>> THEN "No description available."
    ELSE IF descs[Len(descs)][1] = filename THEN descs[Len(descs)][2]
    ELSE DescriptionOf(SubSeq(descs, 1, Len(descs) - 1), filename)

\* "\n".join(f"> {line}" for line in description.split("\n"))
RECURSIVE QuoteLinesFrom(_, _)
QuoteLinesFrom(s, i) ==
    LET n == Find(s, "\n", i)
    IN  IF n = 0 THEN SubSeq(s, i, Len(s))
        ELSE SubSeq(s, i, n) \o "> " \o QuoteLinesFrom(s, n + 1)

QuoteLines(s) == "> " \o QuoteLinesFrom(s, 1)

\* the block merge_article builds for a filename
MarkerBlock(source_filename, descs) ==
    BlockHeader(PathStem(source_filename)) \o "\n"
        \o QuoteLines(CleanDescription(DescriptionOf(descs, source_filename)))

\* ", ".join(items)
RECURSIVE JoinComma(_)
JoinComma(items) ==
    IF items = <<>> THEN ""
    ELSE IF Len(items) = 1 THEN items[1]
    ELSE items[1] \o ", " \o JoinComma(Tail(items))

\* the text the vision model returns for an analysis, in the form its prompt asks for
RenderDescription(a) ==
    "1. **Description**: " \o a.description
        \o "\n2. **UIElements**: " \o JoinComma(a.ui_elements)
        \o "\n3. **NavigationPath**: " \o a.navigation_path

\* the analyses the blocks are formatted for
BlockAnalyses ==
    { ImageAnalysisResult(stem, d, u, n) :
          stem \in {"k1", "k2"},
          d \in {"", "A dialog", "Image: k1"},
          u \in {<<>>, <<"None">>, <<"n/a">>, <<"Save", "Cancel">>},
          n \in {"", "N/A", "none", "Settings > General"} }

\* the block of one image is formatted: _format_image_block in fn_convert, the block of
\* merge_article in fn_convert_mistral
FormatBlock ==
    /\ pc = "format"
    /\ result' = IF variant = "cu"
                 THEN FormatImageBlock(image_analyses[1].filename_stem, image_analyses[1])
                 ELSE MarkerBlock(source_filenames[1], descriptions)
    /\ pc' = "formatted"
    /\ UNCHANGED <<appVars, chunkVars, indexVars, markerVars, parserVars, variant, cu_markdown, link_map, image_map,
                   image_analyses, linked, prev, li, ii>>

InitBlocks ==
    /\ FnIndexIdle
    /\ variant \in {"cu", "mistral"}
    /\ image_analyses \in {<<a>> : a \in BlockAnalyses}
    /\ \E ext \in {".png", ".image"} :
          /\ source_filenames = <<image_analyses[1].filename_stem \o ext>>
          /\ descriptions = IF variant = "cu" THEN <<>>
                            ELSE <<<<source_filenames[1], RenderDescription(image_analyses[1])>>>>
    /\ article = ""
    /\ mi = 0
    /\ staged = {}
    /\ copied = {}
    /\ dom = <<>>
    /\ scan = 0
    /\ cu_markdown = ""
    /\ link_map = <<>>
    /\ image_map = <<>>
    /\ linked = ""
    /\ result = ""
    /\ prev = ""
    /\ li = 0
    /\ ii = 0
    /\ pc = "format"

NextBlocks == FormatBlock

SpecBlocks == InitBlocks /\ [][NextBlocks]_vars

\* populated: not empty and not "none" or "n/a" in any case
Populated(x) == Strip(x) # "" /\ Lower(Strip(x)) \notin {"none", "n/a"}

HasLineWith(block, prefix) ==
    \E k \in 1..Len(SplitLines(block)) : StartsAt(SplitLines(block)[k], 1, prefix)

\* C12 as stated: in both variants the block of an image begins with the header line of
\* its key, the next line is "> " and the description when there is one, and the block
\* has a "> **UI Elements**: " line exactly when the UI elements of the analysis are
\* populated and a "> **Navigation Path**: " line exactly when its navigation path is.
C12_BlockHasPopulatedFields ==
    pc = "formatted" =>
        LET a == image_analyses[1]
            lines == SplitLines(result)
        IN  /\ lines[1] = BlockHeader(a.filename_stem)
            /\ a.description # "" =>
                   (Len(lines) >= 2 /\ lines[2] = "> " \o a.description)
            /\ HasLineWith(result, "> **UI Elements**: ") <=> Populated(JoinComma(a.ui_elements))
            /\ HasLineWith(result, "> **Navigation Path**: ") <=> Populated(a.navigation_path)

(***************************************************************************)
(* fn_index/chunker.py: chunk_article.                                     *)
(***************************************************************************)

\* the first index at or after i that holds no "#"
RECURSIVE SkipHashes(_, _)
SkipHashes(s, i) ==
    IF i <= Len(s) /\ CharAt(s, i) = "#" THEN SkipHashes(s, i + 1) ELSE i

\* the end of the line of index i: the index of its line break, Len(s) + 1 on the last line
LineEnd(s, i) == IF Find(s, "\n", i) = 0 THEN Len(s) + 1 ELSE Find(s, "\n", i)

MaxHeaderLevel == 3

\* _HEADER_RE matched at index p: [ok, level, text, end]. One to three "#" at the start
\* of a line, white space (\s+, which also takes line breaks), then the rest of a line
\* (.+). When only white space follows up to the end of the text, \s+ gives back
\* characters until .+ has a character that is not a line break.
HeaderMatchAt(md, p) ==
    LET h == SkipHashes(md, p)
        w == SkipSpaces(md, h)
        back == {k \in (h + 1)..(w - 1) : CharAt(md, k) # "\n"}
        g == IF w <= Len(md) THEN w
             ELSE IF back # {} THEN CHOOSE k \in back : \A j \in back : j <= k
             ELSE 0
    IN  IF /\ p <= Len(md)
           /\ (p = 1 \/ CharAt(md, p - 1) = "\n")
           /\ h > p
           /\ h - p <= MaxHeaderLevel
           /\ h <= Len(md)
           /\ IsSpace(CharAt(md, h))
           /\ g # 0
        THEN [ok |-> TRUE, level |-> h - p, text |-> Strip(SubSeq(md, g, LineEnd(md, g) - 1)),
              end |-> LineEnd(md, g)]
        ELSE [ok |-> FALSE, level |-> 0, text |-> "", end |-> 0]

\* the start of the next match of _HEADER_RE.finditer at or after p, 0 when none
RECURSIVE NextHeader(_, _)
NextHeader(md, p) ==
    IF p > Len(md) THEN 0
    ELSE IF HeaderMatchAt(md, p).ok THEN p
    ELSE NextHeader(md, p + 1)

\* the list `headers`: <<start, level, header_text>> of every match from p on
RECURSIVE FindHeaders(_, _)
FindHeaders(md, p) ==
    LET start == NextHeader(md, p)
        m == HeaderMatchAt(md, start)
    IN  IF start = 0 THEN <<>>
        ELSE <<<<start, m.level, m.text>>>> \o FindHeaders(md, m.end)

\* the first level-1 header text of the list, "" when none
RECURSIVE ArticleTitle(_)
ArticleTitle(hs) ==
    IF hs = <<>> THEN ""
    ELSE IF hs[1][2] = 1 THEN hs[1][3]
    ELSE ArticleTitle(Tail(hs))

\* _IMAGE_REF_RE matched at index p: [ok, ref, end]. "[Image:", white space, a text
\* without "]", "](images/", then a text without ")" that ends with ".png", then ")"
ImageRefMatchAt(s, p) ==
    LET close == Find(s, "]", p + 7)
        open == close + 9
        paren == Find(s, ")", open)
    IN  IF /\ StartsAt(s, p, "[Image:")
           /\ close > p + 7
           /\ StartsAt(s, close, "](images/")
           /\ paren >= open + 5
           /\ SubSeq(s, paren - 4, paren - 1) = ".png"
        THEN [ok |-> TRUE, ref |-> SubSeq(s, open, paren - 1), end |-> paren + 1]
        ELSE [ok |-> FALSE, ref |-> "", end |-> 0]

\* [m.group(2) for m in _IMAGE_REF_RE.finditer(content)]
RECURSIVE ImageRefsFrom(_, _)
ImageRefsFrom(s, p) ==
    LET q == Find(s, "[", p)
        m == ImageRefMatchAt(s, q)
    IN  IF q = 0 THEN <<>>
        ELSE IF m.ok THEN <<m.ref>> \o ImageRefsFrom(s, m.end)
        ELSE ImageRefsFrom(s, q + 1)

ImageRefs(content) == ImageRefsFrom(content, 1)

\* _build_chunk(content, title, section_header)
BuildChunk(content, title, section_header) ==
    [content |-> content, title |-> title, section_header |-> section_header,
     image_refs |-> ImageRefs(content)]

\* the list `sections`: <<level, header_text, content>>, the preamble first when it is
\* not blank, then one section per header
Sections(md, hs) ==
    LET preamble == Strip(SubSeq(md, 1, hs[1][1] - 1))
        end(i) == IF i + 1 <= Len(hs) THEN hs[i + 1][1] - 1 ELSE Len(md)
    IN  (IF preamble # "" THEN <<<<0, "", preamble>>>> ELSE <<>>)
            \o [i \in 1..Len(hs) |-> <<hs[i][2], hs[i][3], Strip(SubSeq(md, hs[i][1], end(i)))>>]

\* sub in s
Contains(s, sub) == \E i \in 1..(Len(s) + 1) : StartsAt(s, i, sub)

\* one pass of the chunk loop: the section_header of a section, given current_h2
SectionHeader(level, header_text, h2) ==
    IF level = 3 /\ h2 # "" /\ ~Contains(header_text, h2)
    THEN h2 \o " > " \o header_text
    ELSE IF level >= 2 THEN header_text
    ELSE ""

\* current_h2 after a section
NextH2(level, header_text, h2) == IF level = 2 THEN header_text ELSE h2

\* the chunk loop from section i on
RECURSIVE ChunksFrom(_, _, _, _)
ChunksFrom(secs, i, h2, title) ==
    IF i > Len(secs) THEN <<>>
    ELSE IF secs[i][3] = "" THEN ChunksFrom(secs, i + 1, h2, title)
    ELSE <<BuildChunk(secs[i][3], title, SectionHeader(secs[i][1], secs[i][2], NextH2(secs[i][1], secs[i][2], h2)))>>
             \o ChunksFrom(secs, i + 1, NextH2(secs[i][1], secs[i][2], h2), title)

\* chunk_article(markdown)
ChunkArticle(md) ==
    LET hs == FindHeaders(md, 1)
    IN  IF Strip(md) = "" THEN <<>>
        ELSE IF hs = <<>> THEN <<BuildChunk(Strip(md), ArticleTitle(hs), "")>>
        ELSE ChunksFrom(Sections(md, hs), 1, "", ArticleTitle(hs))

MaxChunkLines == 4

\* the lines articles are made of: headings of the three levels, a level-3 heading that
\* holds the text of the level-2 heading, hash runs without text, four hashes, a hash
\* that is not at the start of its line, a blank line, and image blocks of two stems
ChunkLines ==
    {"# T", "## A", "### A b", "### c", "##", "#### x", " # y", "", "#  ",
     BlockHeader("k1"), BlockHeader("f(1)")}

\* the variables of the convert stage
convertVars == <<markerVars, parserVars, variant, cu_markdown, link_map, image_map,
                 image_analyses, linked, result, prev, li, ii>>

\* lines 49-50: a blank document has no chunks
ChunkBlankReturn ==
    /\ pc = "chunk_article"
    /\ Strip(markdown) = ""
    /\ chunks' = <<>>
    /\ pc' = "chunked"
    /\ UNCHANGED <<markdown, hpos, headers, article_title, sections, current_h2, ci>>
    /\ UNCHANGED <<appVars, indexVars, convertVars>>

\* lines 52-53: the header scan starts
FindHeadersCall ==
    /\ pc = "chunk_article"
    /\ Strip(markdown) # ""
    /\ headers' = <<>>
    /\ hpos' = 1
    /\ pc' = "finditer"
    /\ UNCHANGED <<markdown, article_title, sections, chunks, current_h2, ci>>
    /\ UNCHANGED <<appVars, indexVars, convertVars>>

\* lines 54-57: one match of _HEADER_RE.finditer(markdown)
FindHeaderStep ==
    /\ pc = "finditer"
    /\ NextHeader(markdown, hpos) # 0
    /\ LET start == NextHeader(markdown, hpos)
           m == HeaderMatchAt(markdown, start)
       IN  /\ headers' = Append(headers, <<start, m.level, m.text>>)
           /\ hpos' = m.end
    /\ UNCHANGED <<markdown, article_title, sections, chunks, current_h2, ci, pc>>
    /\ UNCHANGED <<appVars, indexVars, convertVars>>

\* lines 59-64: the title is the text of the first level-1 header
ExtractTitle ==
    /\ pc = "finditer"
    /\ NextHeader(markdown, hpos) = 0
    /\ article_title' = ArticleTitle(headers)
    /\ pc' = "titled"
    /\ UNCHANGED <<markdown, hpos, headers, sections, chunks, current_h2, ci>>
    /\ UNCHANGED <<appVars, indexVars, convertVars>>

\* lines 69-73: no header, the whole document is one chunk
NoHeadersReturn ==
    /\ pc = "titled"
    /\ headers = <<>>
    /\ chunks' = <<BuildChunk(Strip(markdown), article_title, "")>>
    /\ pc' = "chunked"
    /\ UNCHANGED <<markdown, hpos, headers, article_title, sections, current_h2, ci>>
    /\ UNCHANGED <<appVars, indexVars, convertVars>>

\* lines 75-88: the preamble and one section per header
SplitSections ==
    /\ pc = "titled"
    /\ headers # <<>>
    /\ sections' = Sections(markdown, headers)
    /\ chunks' = <<>>
    /\ current_h2' = ""
    /\ ci' = 0
    /\ pc' = "sections"
    /\ UNCHANGED <<markdown, hpos, headers, article_title>>
    /\ UNCHANGED <<appVars, indexVars, convertVars>>

\* lines 90-102: one pass of the chunk loop
BuildChunkStep ==
    /\ pc = "sections"
    /\ ci < Len(sections)
    /\ LET level == sections[ci + 1][1]
           header_text == sections[ci + 1][2]
           content == sections[ci + 1][3]
       IN  IF content = ""
           THEN UNCHANGED <<chunks, current_h2>>
           ELSE /\ current_h2' = NextH2(level, header_text, current_h2)
                /\ chunks' = Append(chunks, BuildChunk(content, article_title,
                                        SectionHeader(level, header_text, current_h2')))
    /\ ci' = ci + 1
    /\ UNCHANGED <<markdown, hpos, headers, article_title, sections, pc>>
    /\ UNCHANGED <<appVars, indexVars, convertVars>>

\* line 104
ChunkReturn ==
    /\ pc = "sections"
    /\ ci = Len(sections)
    /\ pc' = "chunked"
    /\ UNCHANGED chunkVars
    /\ UNCHANGED <<appVars, indexVars, convertVars>>

\* the rest of the state while fn_index runs
MergeIdle ==
    /\ variant = "cu"
    /\ cu_markdown = ""
    /\ link_map = <<>>
    /\ image_map = <<>>
    /\ image_analyses = <<>>
    /\ linked = ""
    /\ result = ""
    /\ prev = ""
    /\ li = 0
    /\ ii = 0
    /\ dom = <<>>
    /\ scan = 0
    /\ source_filenames = <<>>
    /\ descriptions = <<>>
    /\ article = ""
    /\ mi = 0
    /\ staged = {}
    /\ copied = {}

InitChunker ==
    /\ AppIdle
    /\ MergeIdle
    /\ \E q \in SeqsUpTo(ChunkLines, MaxChunkLines) : markdown = JoinLines(q)
    /\ hpos = 0
    /\ headers = <<>>
    /\ article_title = ""
    /\ sections = <<>>
    /\ chunks = <<>>
    /\ current_h2 = ""
    /\ ci = 0
    /\ article_id = ""
    /\ search_index = <<>>
    /\ runs = 0
    /\ pc = "chunk_article"

NextChunker ==
    \/ ChunkBlankReturn
    \/ FindHeadersCall
    \/ FindHeaderStep
    \/ ExtractTitle
    \/ NoHeadersReturn
    \/ SplitSections
    \/ BuildChunkStep
    \/ ChunkReturn

SpecChunker == InitChunker /\ [][NextChunker]_vars

(***************************************************************************)
(* Properties of chunk_article.                                            *)
(***************************************************************************)

\* the stems of the image blocks in the articles
ChunkStems == {"k1", "f(1)"}

\* '<key>.png' for every block of the merge engine in s from index i on, in order
RECURSIVE BlockRefsFrom(_, _)
BlockRefsFrom(s, i) ==
    IF i > Len(s) THEN <<>>
    ELSE IF \E k \in ChunkStems : StartsAt(s, i, BlockHeader(k))
    THEN LET k == CHOOSE k \in ChunkStems : StartsAt(s, i, BlockHeader(k))
         IN  <<k \o ".png">> \o BlockRefsFrom(s, i + Len(BlockHeader(k)))
    ELSE IF Find(s, ">", i + 1) = 0 THEN <<>>
    ELSE BlockRefsFrom(s, Find(s, ">", i + 1))

BlockRefs(s) == BlockRefsFrom(s, 1)

\* C13: the image_refs of every chunk are '<key>.png' for every image block of the merge
\* engine in the chunk's content, once per block and in order of appearance, and are
\* empty when the content holds no image block.
C13_ImageRefsFollowBlocks ==
    pc = "chunked" =>
        \A i \in 1..Len(chunks) : chunks[i].image_refs = BlockRefs(chunks[i].content)

\* the same for the blocks whose stem holds no bracket
ImageRefsOfPlainStems ==
    pc = "chunked" =>
        \A i \in 1..Len(chunks) :
            ~Contains(chunks[i].content, BlockHeader("f(1)")) =>
                chunks[i].image_refs = BlockRefs(chunks[i].content)

ImageRefsOfPlainStemsSeen ==
    /\ pc = "chunked"
    /\ \E i \in 1..Len(chunks) : chunks[i].image_refs = <<"k1.png", "k1.png">>

\* the starts of the lines of md
LineStarts(md) == {p \in 1..Len(md) : p = 1 \/ CharAt(md, p - 1) = "\n"}

\* the line that starts at p, without its line break
LineAt(md, p) == SubSeq(md, p, LineEnd(md, p) - 1)

\* a heading line: one to three "#" at the start of the line, white space, and heading
\* text on the same line
IsHeadingLine(line) ==
    LET h == SkipHashes(line, 1)
    IN  /\ h - 1 \in 1..MaxHeaderLevel
        /\ h <= Len(line)
        /\ IsSpace(CharAt(line, h))
        /\ Strip(SubSeq(line, h, Len(line))) # ""

HeadingLevel(line) == SkipHashes(line, 1) - 1

HeadingText(line) == Strip(SubSeq(line, SkipHashes(line, 1), Len(line)))

\* the starts of the heading lines of md
HeadingStarts(md) == {p \in LineStarts(md) : IsHeadingLine(LineAt(md, p))}

\* a line of one to three "#" and nothing but white space after them
IsBareHashLine(line) ==
    /\ SkipHashes(line, 1) - 1 \in 1..MaxHeaderLevel
    /\ Strip(SubSeq(line, SkipHashes(line, 1), Len(line))) = ""

HasBareHashLine(md) == \E p \in LineStarts(md) : IsBareHashLine(LineAt(md, p))

\* C18: the lines at which chunk_article starts a new chunk are exactly the heading
\* lines (one to three "#" at line start, white space, heading text on the same line),
\* and the level and text of each boundary are those of its line; four or more "#", a
\* "#" inside a line and a bare "#", "##" or "###" line are no boundaries.
C18_BoundariesAreHeadingLines ==
    pc = "chunked" =>
        /\ {headers[i][1] : i \in 1..Len(headers)} = HeadingStarts(markdown)
        /\ \A i \in 1..Len(headers) :
               /\ headers[i][2] = HeadingLevel(LineAt(markdown, headers[i][1]))
               /\ headers[i][3] = HeadingText(LineAt(markdown, headers[i][1]))

\* the same for the documents without a bare hash line
BoundariesWithoutBareHashLines ==
    (pc = "chunked" /\ ~HasBareHashLine(markdown)) =>
        /\ {headers[i][1] : i \in 1..Len(headers)} = HeadingStarts(markdown)
        /\ \A i \in 1..Len(headers) :
               /\ headers[i][2] = HeadingLevel(LineAt(markdown, headers[i][1]))
               /\ headers[i][3] = HeadingText(LineAt(markdown, headers[i][1]))

\* the elements of a set of numbers in ascending order
RECURSIVE Ascending(_)
Ascending(S) ==
    IF S = {} THEN <<>>
    ELSE LET least == CHOOSE x \in S : \A y \in S : x <= y
         IN  <<least>> \o Ascending(S \ {least})

\* the spans the heading lines cut the document into, each trimmed: the preamble first
\* when it is not blank, then from each heading line up to the next one
HeadingSpans(md) ==
    LET hs == Ascending(HeadingStarts(md))
        end(i) == IF i + 1 <= Len(hs) THEN hs[i + 1] - 1 ELSE Len(md)
        preamble == Strip(SubSeq(md, 1, IF hs = <<>> THEN Len(md) ELSE hs[1] - 1))
    IN  (IF preamble # "" THEN <<preamble>> ELSE <<>>)
            \o [i \in 1..Len(hs) |-> Strip(SubSeq(md, hs[i], end(i)))]

\* s without its white space
RECURSIVE Squeeze(_)
Squeeze(s) ==
    IF s = "" THEN ""
    ELSE IF SkipSpaces(s, 1) > Len(s) THEN ""
    ELSE LET a == SkipSpaces(s, 1)
             ends == {e \in a..Len(s) : e = Len(s) \/ IsSpace(CharAt(s, e + 1))}
             b == CHOOSE e \in ends : \A f \in ends : e <= f
         IN  SubSeq(s, a, b) \o Squeeze(SubSeq(s, b + 1, Len(s)))

Contents == [i \in 1..Len(chunks) |-> chunks[i].content]

\* C14: the chunk contents, in output order, are the spans the heading lines cut the
\* document into (the preamble first when it is not blank, then from each heading line
\* up to the next one), each trimmed, so that their concatenation is the document up to
\* white space.
C14_ChunksAreHeadingSpans ==
    pc = "chunked" =>
        /\ Contents = HeadingSpans(markdown)
        /\ Squeeze(Concat(Contents)) = Squeeze(markdown)

\* no text is lost and none is duplicated, whatever the boundaries are
ChunksCoverDocument ==
    pc = "chunked" => Squeeze(Concat(Contents)) = Squeeze(markdown)

ChunksAreHeadingSpansWithoutBareHashLines ==
    (pc = "chunked" /\ ~HasBareHashLine(markdown)) => Contents = HeadingSpans(markdown)

\* the text of the first level-1 heading line of md, "" when there is none
FirstH1Text(md) ==
    LET h1 == {p \in HeadingStarts(md) : HeadingLevel(LineAt(md, p)) = 1}
    IN  IF h1 = {} THEN ""
        ELSE HeadingText(LineAt(md, CHOOSE p \in h1 : \A q \in h1 : p <= q))

\* C15: every chunk of a document carries the text of the document's first level-1
\* heading line as its title, and the empty string when the document has none.
C15_TitleIsFirstH1 ==
    pc = "chunked" => \A i \in 1..Len(chunks) : chunks[i].title = FirstH1Text(markdown)

TitleIsFirstH1WithoutBareHashLines ==
    (pc = "chunked" /\ ~HasBareHashLine(markdown)) =>
        \A i \in 1..Len(chunks) : chunks[i].title = FirstH1Text(markdown)

\* the heading level of a chunk: that of its first line, 0 for a chunk that does not
\* start with a heading line
ChunkLevel(c) ==
    IF IsHeadingLine(LineAt(c.content, 1)) THEN HeadingLevel(LineAt(c.content, 1)) ELSE 0

ChunkHeading(c) == HeadingText(LineAt(c.content, 1))

\* the indexes before i of the level-2 chunks
H2Before(i) == {j \in 1..(i - 1) : ChunkLevel(chunks[j]) = 2}

\* the section_header of chunk i as the derivation rule gives it
DerivedSectionHeader(i) ==
    LET c == chunks[i]
        h2 == ChunkHeading(chunks[CHOOSE j \in H2Before(i) : \A k \in H2Before(i) : k <= j])
    IN  IF ChunkLevel(c) = 2 THEN ChunkHeading(c)
        ELSE IF ChunkLevel(c) = 3
        THEN IF H2Before(i) = {} THEN ChunkHeading(c)
             ELSE IF Contains(ChunkHeading(c), h2) THEN ChunkHeading(c)
             ELSE h2 \o " > " \o ChunkHeading(c)
        ELSE ""

\* C16: the section_header of a level-2 chunk is its heading text; of a level-3 chunk
\* "<H2> > <H3>" with the nearest preceding level-2 heading, or the H3 text alone when
\* it contains the H2 text or no level-2 heading precedes; of a preamble or level-1
\* chunk the empty string.
C16_SectionHeaderDerivation ==
    pc = "chunked" => \A i \in 1..Len(chunks) : chunks[i].section_header = DerivedSectionHeader(i)

SectionHeaderDerivationWithoutBareHashLines ==
    (pc = "chunked" /\ ~HasBareHashLine(markdown)) =>
        \A i \in 1..Len(chunks) : chunks[i].section_header = DerivedSectionHeader(i)

\* C17: a blank document has no chunks; a document that is not blank and has no heading
\* line has exactly one chunk, whose content is the trimmed document and whose
\* section_header and title are empty.
C17_HeadinglessDocuments ==
    pc = "chunked" =>
        /\ Strip(markdown) = "" => chunks = <<>>
        /\ (Strip(markdown) # "" /\ HeadingStarts(markdown) = {}) =>
               /\ Len(chunks) = 1
               /\ chunks[1].content = Strip(markdown)
               /\ chunks[1].section_header = ""
               /\ chunks[1].title = ""

HeadinglessDocumentsWithoutBareHashLines ==
    (pc = "chunked" /\ ~HasBareHashLine(markdown)) =>
        /\ Strip(markdown) = "" => chunks = <<>>
        /\ (Strip(markdown) # "" /\ HeadingStarts(markdown) = {}) =>
               /\ Len(chunks) = 1
               /\ chunks[1].content = Strip(markdown)
               /\ chunks[1].section_header = ""
               /\ chunks[1].title = ""

(***************************************************************************)
(* fn_index: run, embed_chunks, index_chunks.                              *)
(***************************************************************************)

MaxRuns == 2

MaxIndexLines == 3

\* str(n) of a natural number
RECURSIVE Str(_)
Str(n) == IF n < 10 THEN CharAt(Digits, n + 1) ELSE Str(n \div 10) \o CharAt(Digits, (n % 10) + 1)

\* the vector the embedding model returns for a text; the model is a function of the text
Embed(text) == <<"vector", text>>

\* embed_chunks(chunks)
EmbedChunks(chks) ==
    [i \in 1..Len(chks) |->
        [content |-> chks[i].content, title |-> chks[i].title,
         section_header |-> chks[i].section_header, image_refs |-> chks[i].image_refs,
         content_vector |-> Embed(chks[i].content)]]

\* f"{article_id}_{i}"
DocId(aid, i) == aid \o "_" \o Str(i)

\* the list `documents` of index_chunks; enumerate counts from 0
Documents(aid, embedded) ==
    [k \in 1..Len(embedded) |->
        [id |-> DocId(aid, k - 1),
         article_id |-> aid,
         chunk_index |-> k - 1,
         content |-> embedded[k].content,
         content_vector |-> embedded[k].content_vector,
         image_urls |-> [j \in 1..Len(embedded[k].image_refs) |-> "images/" \o embedded[k].image_refs[j]],
         source_url |-> "",
         title |-> embedded[k].title,
         section_header |-> embedded[k].section_header,
         key_topics |-> <<>>]]

\* a merge-or-upload that adds every document
MergeOrUploadOne_AlwaysAdds(idx, doc) == Append(idx, doc)

\* the index after merge-or-upload of one document: the document with the same key
\* is replaced, a document with a new key is added
MergeOrUploadOne(idx, doc) ==
    IF \E k \in 1..Len(idx) : idx[k].id = doc.id
    THEN [k \in 1..Len(idx) |-> IF idx[k].id = doc.id THEN doc ELSE idx[k]]
    ELSE Append(idx, doc)

\* client.merge_or_upload_documents(documents)
RECURSIVE MergeOrUpload(_, _)
MergeOrUpload(idx, docs) ==
    IF docs = <<>> THEN idx
    ELSE MergeOrUpload(MergeOrUploadOne(idx, Head(docs)), Tail(docs))

\* run, steps 3 and 4: embed the chunks and push them to the index
IndexChunks ==
    /\ pc = "chunked"
    /\ search_index' = MergeOrUpload(search_index, Documents(article_id, EmbedChunks(chunks)))
    /\ runs' = runs + 1
    /\ pc' = "indexed"
    /\ UNCHANGED <<appVars, article_id, chunkVars, convertVars>>

\* run is called again on the same article folder
RunAgain ==
    /\ pc = "indexed"
    /\ runs < MaxRuns
    /\ hpos' = 0
    /\ headers' = <<>>
    /\ article_title' = ""
    /\ sections' = <<>>
    /\ chunks' = <<>>
    /\ current_h2' = ""
    /\ ci' = 0
    /\ pc' = "chunk_article"
    /\ UNCHANGED <<appVars, markdown, indexVars, convertVars>>

InitIndex ==
    /\ AppIdle
    /\ MergeIdle
    /\ \E q \in SeqsUpTo(ChunkLines, MaxIndexLines) : markdown = JoinLines(q)
    /\ hpos = 0
    /\ headers = <<>>
    /\ article_title = ""
    /\ sections = <<>>
    /\ chunks = <<>>
    /\ current_h2 = ""
    /\ ci = 0
    /\ article_id = "a1"
    /\ search_index = <<>>
    /\ runs = 0
    /\ pc = "chunk_article"

NextIndex ==
    \/ ChunkBlankReturn
    \/ FindHeadersCall
    \/ FindHeaderStep
    \/ ExtractTitle
    \/ NoHeadersReturn
    \/ SplitSections
    \/ BuildChunkStep
    \/ ChunkReturn
    \/ IndexChunks
    \/ RunAgain

SpecIndex == InitIndex /\ [][NextIndex]_vars

\* C19: chunk_article is a function of the document, and the documents pushed for it
\* have chunk_index 0, 1, ... in chunk order and the id "<article_id>_<chunk_index>";
\* a run on an article that was indexed before leaves the search index as it was.
C19_ReindexingIsIdempotent ==
    [][(pc = "chunked" /\ pc' = "indexed") =>
          /\ chunks = ChunkArticle(markdown)
          /\ Len(search_index') = Len(chunks)
          /\ \A i \in 1..Len(chunks) :
                 /\ search_index'[i].id = article_id \o "_" \o Str(i - 1)
                 /\ search_index'[i].chunk_index = i - 1
                 /\ search_index'[i].content = chunks[i].content
          /\ runs >= 1 => search_index' = search_index]_vars

C19_Witness ==
    /\ pc = "indexed"
    /\ runs = 2
    /\ Len(search_index) >= 2

(***************************************************************************)
(* fn_convert_mistral: the marker scan and merge_article.                  *)
(***************************************************************************)

MaxMarkerSegs == 4

\* index of the first occurrence of sub in s at or after from, 0 when none
FindSub(s, sub, from) ==
    LET hits == {i \in from..Len(s) : StartsAt(s, i, sub)}
    IN  IF hits = {} THEN 0 ELSE CHOOSE i \in hits : \A j \in hits : i <= j

\* str.replace(old, new): every occurrence, left to right, without overlap
RECURSIVE ReplaceFrom(_, _, _, _)
ReplaceFrom(s, old, new, from) ==
    LET at == FindSub(s, old, from)
    IN  IF at = 0 THEN SubSeq(s, from, Len(s))
        ELSE SubSeq(s, from, at - 1) \o new \o ReplaceFrom(s, old, new, at + Len(old))

Replace(s, old, new) == ReplaceFrom(s, old, new, 1)

\* the marker at index p: "[[IMG:", a text, "]]"; the scan reports the text stripped
MarkerMatchAt(s, p) ==
    LET close == FindSub(s, "]]", p + 6)
    IN  IF StartsAt(s, p, "[[IMG:") /\ close > p + 6
        THEN [ok |-> TRUE, filename |-> Strip(SubSeq(s, p + 6, close - 1)), end |-> close + 2]
        ELSE [ok |-> FALSE, filename |-> "", end |-> 0]

\* find_image_markers: the filenames of the markers of the text, in order
RECURSIVE FindImageMarkersFrom(_, _)
FindImageMarkersFrom(s, from) ==
    LET p == FindSub(s, "[[IMG:", from)
        m == MarkerMatchAt(s, p)
    IN  IF p = 0 THEN <<>>
        ELSE IF m.ok THEN <<m.filename>> \o FindImageMarkersFrom(s, m.end)
        ELSE FindImageMarkersFrom(s, p + 1)

FindImageMarkers(s) == FindImageMarkersFrom(s, 1)

\* list(dict.fromkeys(q))
RECURSIVE DictFromKeys(_)
DictFromKeys(q) ==
    IF q = <<>> THEN <<>>
    ELSE LET init == DictFromKeys(SubSeq(q, 1, Len(q) - 1))
         IN  IF q[Len(q)] \in Range(init) THEN init ELSE Append(init, q[Len(q)])

\* f"[[IMG:{source_filename}]]"
Marker(source_filename) == "[[IMG:" \o source_filename \o "]]"

\* one pass of the loop of merge_article over source_filenames
ReplaceMarkerStep ==
    /\ pc = "merge_article"
    /\ mi < Len(source_filenames)
    /\ LET source_filename == source_filenames[mi + 1]
       IN  /\ article' = Replace(article, Marker(source_filename),
                                 MarkerBlock(source_filename, descriptions))
           /\ copied' = IF source_filename \in staged
                        THEN copied \cup {PathStem(source_filename) \o ".png"}
                        ELSE copied
    /\ mi' = mi + 1
    /\ UNCHANGED <<appVars, source_filenames, descriptions, staged, chunkVars, indexVars, parserVars, variant,
                   cu_markdown, link_map, image_map, image_analyses, linked, result, prev, li, ii, pc>>

\* the links are recovered and article.md is written
MergeArticleReturn ==
    /\ pc = "merge_article"
    /\ mi = Len(source_filenames)
    /\ result' = IF link_map # <<>> THEN RecoverLinks(variant, article, link_map) ELSE article
    /\ pc' = "merged"
    /\ UNCHANGED <<appVars, markerVars, chunkVars, indexVars, parserVars, variant, cu_markdown, link_map,
                   image_map, image_analyses, linked, prev, li, ii>>

\* the pieces the OCR text is made of: markers of two images, one written with inner
\* white space, and text
MarkerSegs == {"[[IMG:a.png]]", "[[IMG: a.png ]]", "[[IMG:b.image]]", "see ", "\n"}

\* what the vision model returned: nothing, a plain text for one image, sections
MarkerDescriptions ==
    {<<>>,
     <<<<"a.png", "A dialog">>>>,
     <<<<"a.png", "1. **Description**: A dialog.\n2. **UIElements**: Save">>, <<"b.image", "">>>>}

\* run of fn_convert_mistral up to the call of merge_article: cu_markdown stands for
\* the OCR text (full_markdown)
InitMarkers ==
    /\ FnIndexIdle
    /\ variant = "mistral"
    /\ \E q \in SeqsUpTo(MarkerSegs, MaxMarkerSegs) : cu_markdown = Concat(q)
    /\ source_filenames = DictFromKeys(FindImageMarkers(cu_markdown))
    /\ descriptions \in MarkerDescriptions
    /\ staged \in SUBSET {"a.png", "b.image"}
    /\ copied = {}
    /\ article = cu_markdown
    /\ mi = 0
    /\ dom = <<>>
    /\ scan = 0
    /\ link_map = <<>>
    /\ image_map = <<>>
    /\ image_analyses = <<>>
    /\ linked = ""
    /\ result = ""
    /\ prev = ""
    /\ li = 0
    /\ ii = 0
    /\ pc = "merge_article"

NextMarkers == ReplaceMarkerStep \/ MergeArticleReturn

SpecMarkers == InitMarkers /\ [][NextMarkers]_vars

\* the text with every marker replaced in place by the block of its image
RECURSIVE MarkersReplacedFrom(_, _)
MarkersReplacedFrom(s, from) ==
    LET p == FindSub(s, "[[IMG:", from)
        m == MarkerMatchAt(s, p)
    IN  IF p = 0 THEN SubSeq(s, from, Len(s))
        ELSE IF m.ok
        THEN SubSeq(s, from, p - 1) \o MarkerBlock(m.filename, descriptions)
                 \o MarkersReplacedFrom(s, m.end)
        ELSE SubSeq(s, from, p) \o MarkersReplacedFrom(s, p + 1)

\* C20: the article merge_article writes holds no marker of an image the scan found,
\* markers written with inner white space included, and is the OCR text with every
\* marker replaced in place by the block of its image; a missing image file or a
\* missing description does not stop it.
C20_EveryMarkerReplaced ==
    pc = "merged" =>
        /\ \A k \in 1..Len(FindImageMarkers(result)) :
               FindImageMarkers(result)[k] \notin Range(source_filenames)
        /\ result = MarkersReplacedFrom(cu_markdown, 1)

\* the same when every marker is written without inner white space
ExactMarkersReplaced ==
    (pc = "merged" /\ ~Contains(cu_markdown, "[[IMG: ")) =>
        /\ FindImageMarkers(result) = <<>>
        /\ result = MarkersReplacedFrom(cu_markdown, 1)

(***************************************************************************)
(* fn_convert/html_parser.py: extract_link_map.                            *)
(***************************************************************************)

\* a node of a document with links; href is <<>> when the element has no such attribute
LinkNode(tag, text, href) ==
    [tag |-> tag, cls |-> "", text |-> text, src |-> "", alt |-> "", parent |-> 0, href |-> href]

LinkBody == LinkNode("body", "", <<>>)

LinkNodeShapes ==
    { LinkNode("a", "", <<"u.html">>),
      LinkNode("a", "", <<"#top">>),
      LinkNode("a", "", <<"javascript:x">>),
      LinkNode("a", "", <<"">>),
      LinkNode("a", "", <<>>),
      LinkNode("span", "", <<>>),
      LinkNode("#text", "Go", <<>>),
      LinkNode("#text", " \n", <<>>),
      LinkNode("img", "", <<>>) }

\* the nodes are in document order, and only elements have children
WellFormedLinks(d) ==
    /\ d[1] = LinkBody
    /\ \A i \in 2..Len(d) :
           /\ d[i].parent \in Range(Parents(d, i - 1)) \cup {i - 1}
           /\ d[d[i].parent].tag \in {"body", "a", "span"}

\* soup.find_all("a", href=True) in document order
FindAllLinks(d) == Ascending({i \in 1..Len(d) : d[i].tag = "a" /\ d[i].href # <<>>})

\* one iteration of the loop of extract_link_map over the element a_tag
ExtractLink(d, a_tag, res) ==
    LET href == d[a_tag].href[1]
        text == Normalize(GetText(d, a_tag))
    IN  IF StartsAt(href, 1, "#") \/ StartsAt(href, 1, "javascript:") THEN res
        ELSE IF FindAllImg(d, a_tag) # <<>> THEN res
        ELSE IF text # "" /\ href # "" THEN Append(res, <<text, href>>)
        ELSE res

\* one iteration of `for a_tag in soup.find_all("a", href=True)`
ExtractLinkStep ==
    /\ pc = "extract_link_map"
    /\ scan < Len(FindAllLinks(dom))
    /\ link_map' = ExtractLink(dom, FindAllLinks(dom)[scan + 1], link_map)
    /\ scan' = scan + 1
    /\ UNCHANGED <<appVars, chunkVars, indexVars, markerVars, dom, variant, cu_markdown, image_map,
                   image_analyses, linked, result, prev, li, ii, pc>>

\* `return result` of extract_link_map
ExtractLinkMapReturn ==
    /\ pc = "extract_link_map"
    /\ scan = Len(FindAllLinks(dom))
    /\ pc' = "links_extracted"
    /\ UNCHANGED <<appVars, chunkVars, indexVars, markerVars, parserVars, variant, cu_markdown, link_map,
                   image_map, image_analyses, linked, result, prev, li, ii>>

InitLinkParser ==
    /\ FnIndexIdle
    /\ \E n \in 1..MaxNodes :
          \E shapes \in [2..n -> LinkNodeShapes] :
              \E parents \in {f \in [2..n -> 1..(MaxNodes - 1)] : \A i \in 2..n : f[i] < i} :
                  /\ dom = [i \in 1..n |-> IF i = 1 THEN LinkBody
                                           ELSE [shapes[i] EXCEPT !.parent = parents[i]]]
                  /\ WellFormedLinks(dom)
    /\ scan = 0
    /\ source_filenames = <<>>
    /\ descriptions = <<>>
    /\ article = ""
    /\ mi = 0
    /\ staged = {}
    /\ copied = {}
    /\ variant = "cu"
    /\ cu_markdown = ""
    /\ link_map = <<>>
    /\ image_map = <<>>
    /\ image_analyses = <<>>
    /\ linked = ""
    /\ result = ""
    /\ prev = ""
    /\ li = 0
    /\ ii = 0
    /\ pc = "extract_link_map"

NextLinkParser == ExtractLinkStep \/ ExtractLinkMapReturn

SpecLinkParser == InitLinkParser /\ [][NextLinkParser]_vars

\* an <a href> element is excluded when its href is an in-page fragment or uses the
\* javascript: scheme, when its only content is an <img>, or when its text is empty
OnlyContentIsImg(d, i) ==
    /\ FindAllImg(d, i) # <<>>
    /\ \A j \in 1..Len(d) : IsDescendant(d, j, i) => d[j].tag = "img"

ExcludedLink(d, i) ==
    \/ StartsAt(d[i].href[1], 1, "#")
    \/ StartsAt(d[i].href[1], 1, "javascript:")
    \/ OnlyContentIsImg(d, i)
    \/ Normalize(GetText(d, i)) = ""

\* the (text, url) pairs of the elements of q that are not excluded
RECURSIVE PairsOf(_, _)
PairsOf(d, q) ==
    IF q = <<>> THEN <<>>
    ELSE (IF ExcludedLink(d, Head(q)) THEN <<>>
          ELSE <<<<Normalize(GetText(d, Head(q))), d[Head(q)].href[1]>>>>)
             \o PairsOf(d, Tail(q))

\* C21: extract_link_map returns, in document order, exactly the (text, url) pairs of the
\* <a href> elements that are not excluded; an element is excluded exactly when its href
\* is a fragment or a javascript: url, its only content is an <img>, or its text is empty.
C21_LinkMapIsTheLinksNotExcluded ==
    pc = "links_extracted" => link_map = PairsOf(dom, FindAllLinks(dom))

\* a link with text next to an image, or with an empty href
MixedOrEmptyLink(d) ==
    \E i \in Range(FindAllLinks(d)) :
        \/ d[i].href[1] = ""
        \/ FindAllImg(d, i) # <<>> /\ Normalize(GetText(d, i)) # ""

\* the same for the documents without such a link
LinkMapWithoutMixedLinks ==
    (pc = "links_extracted" /\ ~MixedOrEmptyLink(dom)) => link_map = PairsOf(dom, FindAllLinks(dom))

(***************************************************************************)
(* function_app.py: http_convert, http_convert_mistral, http_index.        *)
(***************************************************************************)

MaxBatch == 3

ArticleIds == {"a1", "a2", "a3"}

\* the stages of the processing of one article, in the order they run
Stages(h) == IF h = "http_index" THEN <<"download", "run">> ELSE <<"download", "run", "upload">>

\* the variables of the pipeline stages, which the HTTP functions leave alone here
stageVars == <<chunkVars, indexVars, convertVars>>

\* what the HTTP functions leave alone
batchRest == <<stageVars, streamVars, kbVars, visionVars>>

\* an entry that reports success whatever happened
ResultEntry_AlwaysOk(h, id, fault, count) == [article_id |-> id, status |-> "ok"]

\* the entry appended to `results` for an article: fault is the stage that raised
ResultEntry(h, id, fault, count) ==
    IF fault # "ok"
    THEN [article_id |-> id, status |-> "error", error |-> fault \o " failed"]
    ELSE IF h = "http_index" THEN [article_id |-> id, status |-> "ok"]
    ELSE [article_id |-> id, status |-> "ok", blobs_uploaded |-> count]

\* `if not article_ids`: the 404 response
BatchNotFound ==
    /\ pc = "http"
    /\ article_ids = <<>>
    /\ response' = [status_code |-> 404, error |-> "No articles found"]
    /\ pc' = "responded"
    /\ UNCHANGED <<handler, article_ids, faults, attempted, stage, results, batchRest>>

\* the try block of `for article_id in article_ids`: the next stage of the article in
\* hand returns; after the last stage the "ok" entry is appended
StageReturns ==
    /\ pc = "http"
    /\ Len(results) < Len(article_ids)
    /\ LET id == article_ids[Len(results) + 1]
       IN  /\ faults[id] # Stages(handler)[stage + 1]
           /\ attempted' = IF stage = 0 THEN Append(attempted, id) ELSE attempted
           /\ IF stage + 1 = Len(Stages(handler))
              THEN /\ \E count \in 1..2 :
                          results' = Append(results, ResultEntry(handler, id, "ok", count))
                   /\ stage' = 0
              ELSE /\ stage' = stage + 1
                   /\ UNCHANGED results
    /\ UNCHANGED <<handler, article_ids, faults, response, batchRest, pc>>

\* the except clause: the next stage raises, the "error" entry is appended and the loop
\* goes on with the next article
StageRaises ==
    /\ pc = "http"
    /\ Len(results) < Len(article_ids)
    /\ LET id == article_ids[Len(results) + 1]
       IN  /\ faults[id] = Stages(handler)[stage + 1]
           /\ attempted' = IF stage = 0 THEN Append(attempted, id) ELSE attempted
           /\ results' = Append(results, ResultEntry(handler, id, faults[id], 0))
           /\ stage' = 0
    /\ UNCHANGED <<handler, article_ids, faults, response, batchRest, pc>>

\* the response with the results
BatchRespond ==
    /\ pc = "http"
    /\ article_ids # <<>>
    /\ Len(results) = Len(article_ids)
    /\ response' = [status_code |-> 200, results |-> results]
    /\ pc' = "responded"
    /\ UNCHANGED <<handler, article_ids, faults, attempted, stage, results, batchRest>>

\* a request: the article ids are distinct (one id of the body, or the sorted folder
\* names of the container), and any of them may raise at any stage
InitBatch ==
    /\ MergeIdle
    /\ IndexIdle
    /\ StreamIdle
    /\ KbIdle
    /\ VisionIdle
    /\ handler \in {"http_convert", "http_convert_mistral", "http_index"}
    /\ \E n \in 0..MaxBatch :
           article_ids \in {q \in [1..n -> ArticleIds] : \A i, j \in 1..n : q[i] = q[j] => i = j}
    /\ faults \in [ArticleIds -> {"ok"} \cup Range(Stages(handler))]
    /\ attempted = <<>>
    /\ stage = 0
    /\ results = <<>>
    /\ response = <<>>
    /\ pc = "http"

NextBatch == BatchNotFound \/ StageReturns \/ StageRaises \/ BatchRespond

SpecBatch == InitBatch /\ [][NextBatch]_vars

\* C22: in each of the three HTTP functions, whatever articles raise and wherever, every
\* article of the list is attempted exactly once in list order, and the response holds
\* one entry per article, in order: "error" with the message for an article that
\* raised, "ok" for every other one.
C22_BatchFailureIsolation ==
    (pc = "responded" /\ article_ids # <<>>) =>
        /\ attempted = article_ids
        /\ Len(response.results) = Len(article_ids)
        /\ \A i \in 1..Len(article_ids) :
               LET id == article_ids[i]
                   r == response.results[i]
               IN  /\ r.article_id = id
                   /\ faults[id] = "ok" => r.status = "ok"
                   /\ faults[id] # "ok" => r.status = "error" /\ r.error = faults[id] \o " failed"

\* a batch in which an article raises and a later one is processed
C22_Witness ==
    /\ pc = "responded"
    /\ Len(article_ids) = 3
    /\ faults[article_ids[1]] = "run"
    /\ faults[article_ids[2]] = "ok"
    /\ faults[article_ids[3]] = "download"

(***************************************************************************)
(* agent/main.py: _create_streaming_response.                              *)
(***************************************************************************)

MaxChunks == 3

\* what the streaming response leaves alone
streamRest == <<stageVars, batchVars, kbVars, visionVars>>

\* _sse(event_type, data): the event, with the part of its data that the checks read
Sse(event_type, data) == [type |-> event_type, data |-> data]

\* full_response with a chunk that overwrites it
TakeChunk_Overwrites(full, chunk_text) == chunk_text

\* `full_response += chunk_text`
TakeChunk(full, chunk_text) == full \o chunk_text

\* the agent raises when it is asked for the chunk after `taken`
AgentRaisesNow == fail_at = taken + 1

\* the first three events, one per step of the generator
YieldCreated ==
    /\ pc = "generate"
    /\ events' = Append(events, Sse("response.created", "in_progress"))
    /\ pc' = "created"
    /\ UNCHANGED <<full_response, agent_out, fail_at, streaming, taken, pending, streamRest>>

YieldItemAdded ==
    /\ pc = "created"
    /\ events' = Append(events, Sse("response.output_item.added", "in_progress"))
    /\ pc' = "item_added"
    /\ UNCHANGED <<full_response, agent_out, fail_at, streaming, taken, pending, streamRest>>

YieldPartAdded ==
    /\ pc = "item_added"
    /\ events' = Append(events, Sse("response.content_part.added", ""))
    /\ pc' = "part_added"
    /\ UNCHANGED <<full_response, agent_out, fail_at, streaming, taken, pending, streamRest>>

\* the generator resumes: the citations are cleared and the agent run starts
StartAgent ==
    /\ pc = "part_added"
    /\ pending' = <<>>
    /\ full_response' = ""
    /\ pc' = IF streaming THEN "run_stream" ELSE "run"
    /\ UNCHANGED <<events, agent_out, fail_at, streaming, taken, streamRest>>

\* one pass of `async for chunk in agent.run_stream(full_input)`; a chunk is modelled by
\* its text, "" for a chunk without text; the search tool may have added a citation
StreamChunk ==
    /\ pc = "run_stream"
    /\ taken < Len(agent_out)
    /\ ~AgentRaisesNow
    /\ LET chunk_text == agent_out[taken + 1]
       IN  IF chunk_text # ""
           THEN /\ full_response' = TakeChunk(full_response, chunk_text)
                /\ events' = Append(events, Sse("response.output_text.delta", chunk_text))
           ELSE UNCHANGED <<full_response, events>>
    /\ taken' = taken + 1
    /\ \E cited \in BOOLEAN :
           pending' = IF cited THEN Append(pending, taken + 1) ELSE pending
    /\ UNCHANGED <<agent_out, fail_at, streaming, streamRest, pc>>

\* the stream of the agent is exhausted
StreamEnds ==
    /\ pc = "run_stream"
    /\ taken = Len(agent_out)
    /\ ~AgentRaisesNow
    /\ pc' = "text_done"
    /\ UNCHANGED <<streamVars, streamRest>>

\* `result = await agent.run(full_input)` and its single delta
RunWhole ==
    /\ pc = "run"
    /\ fail_at = 0
    /\ full_response' = Concat(agent_out)
    /\ events' = IF full_response' # ""
                 THEN Append(events, Sse("response.output_text.delta", full_response'))
                 ELSE events
    /\ taken' = Len(agent_out)
    /\ \E cited \in BOOLEAN :
           pending' = IF cited THEN Append(pending, 1) ELSE pending
    /\ pc' = "text_done"
    /\ UNCHANGED <<agent_out, fail_at, streaming, streamRest>>

\* the agent raises: the except clause yields response.failed and the generator ends
AgentRaises ==
    /\ \/ pc = "run_stream" /\ AgentRaisesNow
       \/ pc = "run" /\ fail_at # 0
    /\ events' = Append(events, Sse("response.failed", "agent failed"))
    /\ pc' = "closed"
    /\ UNCHANGED <<full_response, agent_out, fail_at, streaming, taken, pending, streamRest>>

YieldTextDone ==
    /\ pc = "text_done"
    /\ events' = Append(events, Sse("response.output_text.done", full_response))
    /\ pc' = "part_done"
    /\ UNCHANGED <<full_response, agent_out, fail_at, streaming, taken, pending, streamRest>>

YieldPartDone ==
    /\ pc = "part_done"
    /\ events' = Append(events, Sse("response.content_part.done", full_response))
    /\ pc' = "item_done"
    /\ UNCHANGED <<full_response, agent_out, fail_at, streaming, taken, pending, streamRest>>

YieldItemDone ==
    /\ pc = "item_done"
    /\ events' = Append(events, Sse("response.output_item.done", full_response))
    /\ pc' = "completing"
    /\ UNCHANGED <<full_response, agent_out, fail_at, streaming, taken, pending, streamRest>>

\* response.completed with the citations, and the generator ends
YieldCompleted ==
    /\ pc = "completing"
    /\ events' = Append(events, Sse("response.completed", pending))
    /\ pc' = "closed"
    /\ UNCHANGED <<full_response, agent_out, fail_at, streaming, taken, pending, streamRest>>

\* citations of an earlier request may still be in the list
InitStream ==
    /\ MergeIdle
    /\ IndexIdle
    /\ BatchIdle
    /\ KbIdle
    /\ VisionIdle
    /\ events = <<>>
    /\ full_response = ""
    /\ agent_out \in SeqsUpTo({"", "Hi", " all"}, MaxChunks)
    /\ fail_at \in 0..(Len(agent_out) + 1)
    /\ streaming \in BOOLEAN
    /\ taken = 0
    /\ pending \in {<<>>, <<0>>}
    /\ pc = "generate"

NextStream ==
    \/ YieldCreated
    \/ YieldItemAdded
    \/ YieldPartAdded
    \/ StartAgent
    \/ StreamChunk
    \/ StreamEnds
    \/ RunWhole
    \/ AgentRaises
    \/ YieldTextDone
    \/ YieldPartDone
    \/ YieldItemDone
    \/ YieldCompleted

SpecStream == InitStream /\ [][NextStream]_vars

EventTypes == [i \in 1..Len(events) |-> events[i].type]

Opening == <<"response.created", "response.output_item.added", "response.content_part.added">>

Closing == <<"response.output_text.done", "response.content_part.done", "response.output_item.done">>

Terminal == {"response.completed", "response.failed"}

\* the indexes of the events of a type
IndexesOf(type) == {i \in 1..Len(events) : events[i].type = type}

\* the deltas of the stream, concatenated in order
RECURSIVE DeltasUpTo(_)
DeltasUpTo(n) ==
    IF n = 0 THEN ""
    ELSE DeltasUpTo(n - 1)
             \o (IF events[n].type = "response.output_text.delta" THEN events[n].data ELSE "")

\* C23: the stream starts with response.created, response.output_item.added and
\* response.content_part.added in that order; every delta comes after them and before
\* the three done events; a terminal event is the last event, there is exactly one when
\* the stream has ended, response.failed when the agent raised and response.completed
\* otherwise; the text of response.output_text.done is the deltas concatenated.
C23_StreamingEventOrder ==
    /\ \A i \in 1..Len(events) : i <= 3 => events[i].type = Opening[i]
    /\ \A i \in IndexesOf("response.output_text.delta") :
           /\ i > 3
           /\ \A k \in 1..3 : \A j \in IndexesOf(Closing[k]) : i < j
    /\ \A k \in 1..3 : Cardinality(IndexesOf(Closing[k])) <= 1
    /\ \A j \in IndexesOf(Closing[2]) : \E i \in IndexesOf(Closing[1]) : i < j
    /\ \A j \in IndexesOf(Closing[3]) : \E i \in IndexesOf(Closing[2]) : i < j
    /\ \A i \in 1..Len(events) : events[i].type \in Terminal => i = Len(events) /\ pc = "closed"
    /\ \A i \in IndexesOf("response.completed") : \A k \in 1..3 : \E j \in IndexesOf(Closing[k]) : j < i
    /\ pc = "closed" =>
           /\ Len(events) > 3
           /\ events[Len(events)].type = (IF fail_at = 0 THEN "response.completed" ELSE "response.failed")
    /\ \A i \in IndexesOf("response.output_text.done") : events[i].data = DeltasUpTo(Len(events))

\* a stream with two deltas that completed
C23_Witness ==
    /\ pc = "closed"
    /\ Cardinality(IndexesOf("response.output_text.delta")) = 2
    /\ IndexesOf("response.completed") # {}

(***************************************************************************)
(* _insert_after_text on anchors longer than the search window              *)
(* (specification SpecInsert): insert_image_blocks on position maps of one  *)
(* or two records whose anchors have up to sixteen words.                   *)
(***************************************************************************)

LongAnchor == "a b c d e f g h i j k l m n o p"

InsertRecs ==
    { <<LongAnchor, "k1">>, <<"*B* c  d e f g h i j k l m n o p", "k1">>,
      <<"n o p", "k2">>, <<"z n o p", "k1">>, <<"it", "k2">>, <<"Image: k1", "k2">> }

InsertTexts ==
    { "B c d e f g h i j k l m n  o\np q\nend",
      "z b c d e f g h i j k l m n o p",
      "N O P\nn o p\n",
      "a b c d e f g h i j k l m n o p\nit",
      "none" }

InitInsert ==
    /\ FnIndexIdle
    /\ source_filenames = <<>>
    /\ descriptions = <<>>
    /\ article = ""
    /\ mi = 0
    /\ staged = {}
    /\ copied = {}
    /\ dom = <<>>
    /\ scan = 0
    /\ variant = "cu"
    /\ cu_markdown = ""
    /\ link_map = <<>>
    /\ image_map \in [1..1 -> InsertRecs] \cup [1..2 -> InsertRecs]
    /\ image_analyses = <<Analysis("k1", "Close it"), Analysis("k2", "")>>
    /\ linked \in InsertTexts
    /\ result = linked
    /\ prev = linked
    /\ li = 0
    /\ ii = Len(image_map)
    /\ pc = "insert_image_blocks"

SpecInsert == InitInsert /\ [][NextImages]_vars

\* the trailing words of the normalized anchor, at most MaxSearchWords of them
TrailingWords(anchor) ==
    LET w == Split(NormalizeForMatch(anchor))
        n == IF Len(w) < MaxSearchWords THEN Len(w) ELSE MaxSearchWords
    IN  [k \in 1..n |-> w[Len(w) - n + k]]

\* doc[s..e-1] is the words in order, in any case, with a whitespace run between
\* consecutive words and nothing else
IsMatch(doc, s, e, words) ==
    /\ s < e
    /\ ~IsSpace(CharAt(doc, s))
    /\ ~IsSpace(CharAt(doc, e - 1))
    /\ Split(Lower(SubSeq(doc, s, e - 1))) = words

MatchesOf(doc, words) ==
    {m \in (1..Len(doc)) \X (2..(Len(doc) + 1)) : IsMatch(doc, m[1], m[2], words)}

LeftmostMatch(doc, words) ==
    CHOOSE m \in MatchesOf(doc, words) : \A o \in MatchesOf(doc, words) : m[1] <= o[1]

\* the index of the first line break at or after index e, or the index after the text
LineBreakFrom(doc, e) ==
    LET breaks == {q \in e..Len(doc) : CharAt(doc, q) = "\n"}
    IN  IF breaks = {} THEN Len(doc) + 1
        ELSE CHOOSE q \in breaks : \A o \in breaks : q <= o

\* the last iteration searched for its anchor and found it
SearchMatched ==
    /\ ImageStepped
    /\ HasAnalysis(image_analyses, LastImageRec[2])
    /\ Len(NormalizeForMatch(LastImageRec[1])) >= MinSearchLen
    /\ MatchesOf(prev, TrailingWords(LastImageRec[1])) # {}

\* C24: when the search of _insert_after_text for the trailing 15 words of the
\* normalized anchor (case-insensitive, any whitespace run between consecutive words)
\* matches, with e the end of the leftmost match and p the first line break at or after
\* e (or the end of the text), the result is the text before p, a blank-line separator,
\* the block, and the text from p on, unaltered.
C24_InsertionPointOnMatch ==
    SearchMatched =>
        LET m == LeftmostMatch(prev, TrailingWords(LastImageRec[1]))
            p == LineBreakFrom(prev, m[2])
        IN  result = SubSeq(prev, 1, p - 1) \o "\n\n" \o BlockOf(LastImageRec)
                         \o SubSeq(prev, p, Len(prev))

\* an anchor of sixteen words was found by its last fifteen words, over a line break,
\* in a text that does not hold its first word, and the match ends inside a line
C24_Witness ==
    /\ SearchMatched
    /\ Len(Split(NormalizeForMatch(LastImageRec[1]))) > MaxSearchWords
    /\ MatchesOf(prev, Split(NormalizeForMatch(LastImageRec[1]))) = {}
    /\ LET m == LeftmostMatch(prev, TrailingWords(LastImageRec[1]))
       IN  /\ m[2] <= Len(prev)
           /\ CharAt(prev, m[2]) # "\n"
           /\ \E q \in m[1]..m[2] : CharAt(prev, q) = "\n"

\* the lines of a block of stem s that follow its header line: its description line
\* when the analysis has a description
DescriptionLine(s) == "> " \o AnalysisByStem(image_analyses, s).description

\* the block of stem s whose header is line i of the text is in one piece
BlockIntactAt(lines, i, s) ==
    AnalysisByStem(image_analyses, s).description # ""
        => (i < Len(lines) /\ lines[i + 1] = DescriptionLine(s))

\* C25: every image block in the text insert_image_blocks builds is contiguous: the
\* header line of an image that has a description is immediately followed by the
\* description line of that image; no block is inserted between the lines of another
\* block.
C25_InsertedBlocksStayIntact ==
    (pc \in {"insert_image_blocks", "done"} /\ CountHeaderLines(linked) = 0) =>
        LET lines == SplitLines(result)
        IN  \A i \in 1..Len(lines) : \A s \in Stems :
                (lines[i] = BlockHeader(s) /\ HasAnalysis(image_analyses, s))
                    => BlockIntactAt(lines, i, s)

\* the search words of the record's anchor are found inside the header line of a block
AnchorInHeader(rec) ==
    /\ Len(NormalizeForMatch(rec[1])) >= MinSearchLen
    /\ \E s \in Stems : MatchesOf(BlockHeader(s), TrailingWords(rec[1])) # {}

\* the blocks stay intact when no anchor of the map is found inside a block header line
BlocksIntactWithoutHeaderAnchors ==
    (\A k \in 1..Len(image_map) : ~AnchorInHeader(image_map[k]))
        => C25_InsertedBlocksStayIntact

\* an anchor was found in the text of a block inserted by an earlier iteration
AnchorFoundInInsertedBlock ==
    /\ SearchMatched
    /\ MatchesOf(linked, TrailingWords(LastImageRec[1])) = {}

(***************************************************************************)
(* recover_links followed by insert_image_blocks on texts of two and three  *)
(* lines with at most two images (specification SpecLinkedImages).          *)
(***************************************************************************)

\* texts whose first two lines hold an anchor, with and without a line after it
PipeTexts == {"Open it\n tool\nx", "Open it\n tool", "x\nOpen it"}

InitLinkedImages ==
    /\ FnIndexIdle
    /\ source_filenames = <<>>
    /\ descriptions = <<>>
    /\ article = ""
    /\ mi = 0
    /\ staged = {}
    /\ copied = {}
    /\ dom = <<>>
    /\ scan = 0
    /\ variant = "cu"
    /\ cu_markdown \in PipeTexts
    /\ link_map \in SeqsUpTo(PipeLinkRecs, MaxLinks)
    /\ image_map \in [1..1 -> PipeImageRecs] \cup [1..2 -> PipeImageRecs]
    /\ image_analyses \in AnalysisLists
    /\ linked = ""
    /\ result = cu_markdown
    /\ prev = cu_markdown
    /\ li = 0
    /\ ii = 0
    /\ pc = "recover_links"

SpecLinkedImages == InitLinkedImages /\ [][Next]_vars

\* what a line of a merged text is: a line of a block, an empty line, or text
LineKind(line) ==
    IF StartsAt(line, 1, "> ") THEN line ELSE IF line = "" THEN "" ELSE "text"

\* the text as the sequence of the kinds of its lines: where the blocks are between the
\* lines of the document
Layout(doc) == LET lines == SplitLines(doc) IN [i \in 1..Len(lines) |-> LineKind(lines[i])]

\* C26: in the fn_convert pipeline every image block is after the same line of the
\* document as in the text insert_image_blocks builds from the document without link
\* recovery, and an anchor that is found in the document is found in the document with
\* its links recovered.
C26_LinkRecoveryDoesNotMoveImages ==
    pc = "done" =>
        /\ Layout(result) = Layout(InsertImageBlocks(cu_markdown, image_map, image_analyses))
        /\ \A k \in 1..Len(image_map) :
               (Analysed(k) /\ ~FallsBack(cu_markdown, image_map[k][1]))
                   => ~FallsBack(linked, image_map[k][1])

\* a link was wrapped between the first and the last character of the span the anchor
\* of a record matches in the document
LinkInsideAnchorSpan ==
    \E k \in 1..Len(image_map) :
        /\ Analysed(k)
        /\ ~FallsBack(cu_markdown, image_map[k][1])
        /\ FallsBack(linked, image_map[k][1])

\* the blocks are where they are without link recovery when every anchor that is found
\* in the document is still found after link recovery
ImagesStayWithoutLinkInsideAnchorSpan ==
    (pc = "done" /\ ~LinkInsideAnchorSpan) =>
        Layout(result) = Layout(InsertImageBlocks(cu_markdown, image_map, image_analyses))

(***************************************************************************)
(* merge_article with a link map (specification SpecMarkerLinks): the       *)
(* markers are replaced by blocks, then recover_links runs on the article.  *)
(***************************************************************************)

MaxLinkedSegs == 3

LinkedMarkerSegs == {"[[IMG:a.png]]", "[[IMG:b.image]]", "see ", "a dialog\n"}

\* link maps of the source HTML: none, a link text equal to an image stem, link texts
\* equal to words of the header, link texts of the running text
MarkerLinkMaps ==
    { <<>>, <<<<"a", "u">>>>, <<<<"Image", "u">>>>, <<<<"png", "u">>, <<"images", "v">>>>,
      <<<<"dialog", "v">>, <<"see", "w">>>> }

InitMarkerLinks ==
    /\ FnIndexIdle
    /\ variant = "mistral"
    /\ \E q \in SeqsUpTo(LinkedMarkerSegs, MaxLinkedSegs) : cu_markdown = Concat(q)
    /\ source_filenames = DictFromKeys(FindImageMarkers(cu_markdown))
    /\ descriptions \in {<<>>, <<<<"a.png", "A dialog">>>>}
    /\ staged \in {{}, {"a.png", "b.image"}}
    /\ copied = {}
    /\ article = cu_markdown
    /\ mi = 0
    /\ dom = <<>>
    /\ scan = 0
    /\ link_map \in MarkerLinkMaps
    /\ image_map = <<>>
    /\ image_analyses = <<>>
    /\ linked = ""
    /\ result = ""
    /\ prev = ""
    /\ li = 0
    /\ ii = 0
    /\ pc = "merge_article"

SpecMarkerLinks == InitMarkerLinks /\ [][NextMarkers]_vars

\* C27: in the article merge_article writes, the header line of the block of every image
\* whose marker was replaced is present verbatim, for any link map, and the image
\* reference extraction of the chunker finds the file <stem>.png of that image.
C27_HeadersSurviveLinkRecovery ==
    pc = "merged" =>
        \A k \in 1..Len(source_filenames) :
            LET stem == PathStem(source_filenames[k])
            IN  Contains(cu_markdown, Marker(source_filenames[k]))
                    => /\ Contains(result, BlockHeader(stem))
                       /\ stem \o ".png" \in Range(ImageRefs(result))

\* the pattern of a link text of the map matches inside the header line of a block
LinkTextInHeader ==
    \E i \in 1..Len(link_map) : \E k \in 1..Len(source_filenames) :
        /\ link_map[i][1] # "" /\ link_map[i][2] # ""
        /\ LinkSearch("mistral", BlockHeader(PathStem(source_filenames[k])), link_map[i][1]) # 0

\* the headers are kept when no link text matches inside a header line
HeadersSurviveWithoutLinkTextInHeader ==
    ~LinkTextInHeader => C27_HeadersSurviveLinkRecovery

\* a link text that is a word of the header line, and is not wrapped there, left the
\* header as it was
HeaderWordLinkSeen ==
    /\ pc = "merged"
    /\ Len(link_map) = 1
    /\ link_map[1][1] = "Image"
    /\ Len(source_filenames) > 0
    /\ ~LinkTextInHeader
    /\ C27_HeadersSurviveLinkRecovery

(***************************************************************************)
(* web-app/app/agent/kb_agent.py: KBAgent.chat and chat_stream, and the     *)
(* tool search_knowledge_base, for two calls in one process (specification  *)
(* SpecChat). A coroutine runs without interruption between two awaits:     *)
(* the clears and the first step of the agent run are one step, each tool   *)
(* call is one step, the construction of the AgentResponse is one step.     *)
(***************************************************************************)

MaxSearches == 2

MaxChats == 2

Calls == {"c1", "c2"}

\* the dataclass Citation, with the fields that tell two citations apart
Citation(id, chunk_index) == [article_id |-> id, chunk_index |-> chunk_index]

\* what search_kb returns to one tool call (no result when it raises)
SearchResults ==
    { <<>>, <<Citation("a1", 0)>>, <<Citation("a2", 0), Citation("a2", 1)>> }

\* what the model leaves alone in the steps of KBAgent
kbRest == <<stageVars, batchVars, streamVars, visionVars, pc>>

Running(c) == chat_calls[c].pc = "running"

\* chat / chat_stream up to the first await of the agent run: both accumulators are
\* cleared. overlapped records that another call was running at some point of this one.
ChatStart(c) ==
    /\ chat_calls[c].pc \in {"idle", "returned"}
    /\ chat_calls[c].chats < MaxChats
    /\ pending_citations' = <<>>
    /\ chat_calls' =
           [d \in Calls |->
               IF d = c
               THEN [pc |-> "running", appended |-> <<>>, citations |-> <<>>, searches |-> 0,
                     chats |-> chat_calls[c].chats + 1,
                     overlapped |-> \E o \in Calls \ {c} : Running(o)]
               ELSE IF Running(d) THEN [chat_calls[d] EXCEPT !.overlapped = TRUE]
               ELSE chat_calls[d]]
    /\ UNCHANGED kbRest

\* search_knowledge_base called by the agent run of call c: one Citation per result is
\* appended to the module-level list
SearchKnowledgeBase(c, search_results) ==
    /\ Running(c)
    /\ chat_calls[c].searches < MaxSearches
    /\ pending_citations' = pending_citations \o search_results
    /\ chat_calls' = [chat_calls EXCEPT ![c].appended = @ \o search_results,
                                        ![c].searches = @ + 1]
    /\ UNCHANGED kbRest

\* the agent run of call c has ended (or raised): AgentResponse(citations=list(_pending_citations))
ChatReturn(c) ==
    /\ Running(c)
    /\ chat_calls' = [chat_calls EXCEPT ![c].pc = "returned", ![c].citations = pending_citations]
    /\ UNCHANGED <<pending_citations, kbRest>>

InitChat ==
    /\ MergeIdle
    /\ IndexIdle
    /\ BatchIdle
    /\ StreamIdle
    /\ VisionIdle
    /\ pending_citations = <<>>
    /\ chat_calls = [c \in Calls |->
                        [pc |-> "idle", appended |-> <<>>, citations |-> <<>>, searches |-> 0,
                         chats |-> 0, overlapped |-> FALSE]]
    /\ pc = "chat"

NextChat ==
    \/ \E c \in Calls : ChatStart(c)
    \/ \E c \in Calls : \E r \in SearchResults : SearchKnowledgeBase(c, r)
    \/ \E c \in Calls : ChatReturn(c)

SpecChat == InitChat /\ [][NextChat]_vars

\* C28: the citations of the AgentResponse of a call are exactly the citations the
\* search_knowledge_base calls of its own agent run appended, in every interleaving of
\* two calls, and nothing an earlier call left is among them.
C28_PerRequestCitations ==
    \A c \in Calls :
        chat_calls[c].pc = "returned" => chat_calls[c].citations = chat_calls[c].appended

\* the same for a call during which no other call was running
CitationsOfCallsThatDoNotOverlap ==
    \A c \in Calls :
        (chat_calls[c].pc = "returned" /\ ~chat_calls[c].overlapped)
            => chat_calls[c].citations = chat_calls[c].appended

\* a second call that followed a call with citations returned its own citations only
SequentialCallsSeen ==
    \E c \in Calls : \E d \in Calls \ {c} :
        /\ chat_calls[c].pc = "returned" /\ chat_calls[c].citations # <<>>
        /\ chat_calls[d].pc = "returned" /\ ~chat_calls[d].overlapped
        /\ chat_calls[d].citations = <<Citation("a1", 0)>>
        /\ chat_calls[c].citations # chat_calls[d].citations

(***************************************************************************)
(* fn_index.run on an article whose article.md changes between two runs     *)
(* (specification SpecReindex).                                             *)
(***************************************************************************)

\* article.md as it is written by a conversion run: three sections, two, one, a text
\* without heading, a blank text
ReindexTexts == {"# T\n## A\n### A b", "# T\n## A", "# T", "### c\n## A", "x", " "}

\* the article folder is converted again, then run is called again on it
ArticleRewritten ==
    /\ pc = "indexed"
    /\ runs < MaxRuns
    /\ markdown' \in ReindexTexts \ {markdown}
    /\ hpos' = 0
    /\ headers' = <<>>
    /\ article_title' = ""
    /\ sections' = <<>>
    /\ chunks' = <<>>
    /\ current_h2' = ""
    /\ ci' = 0
    /\ pc' = "chunk_article"
    /\ UNCHANGED <<appVars, indexVars, convertVars>>

InitReindex ==
    /\ AppIdle
    /\ MergeIdle
    /\ markdown \in ReindexTexts
    /\ hpos = 0
    /\ headers = <<>>
    /\ article_title = ""
    /\ sections = <<>>
    /\ chunks = <<>>
    /\ current_h2 = ""
    /\ ci = 0
    /\ article_id = "a1"
    /\ search_index = <<>>
    /\ runs = 0
    /\ pc = "chunk_article"

NextReindex == NextIndex \/ ArticleRewritten

SpecReindex == InitReindex /\ [][NextReindex]_vars

\* the documents of the index that belong to the article
DocumentsOf(aid) == SelectSeq(search_index, LAMBDA d : d.article_id = aid)

\* C29: when run has completed for an article, the documents of the index with that
\* article_id are exactly the chunks of the current article.md: one document per chunk,
\* with the chunk's position and content, and no document of an earlier, longer version.
C29_NoStaleChunks ==
    pc = "indexed" =>
        LET docs == DocumentsOf(article_id)
            current == ChunkArticle(markdown)
        IN  /\ {docs[k].id : k \in 1..Len(docs)}
                  = {DocId(article_id, i) : i \in 0..(Len(current) - 1)}
            /\ \A k \in 1..Len(docs) :
                   docs[k].chunk_index + 1 <= Len(current)
                       => docs[k].content = current[docs[k].chunk_index + 1].content

\* the index holds the chunks of the current article.md when no earlier version of the
\* article had more chunks
NoStaleChunksWithoutShrinking ==
    (pc = "indexed" /\ Len(search_index) <= Len(ChunkArticle(markdown)))
        => C29_NoStaleChunks

\* an article was indexed again with more chunks than before
GrownArticleSeen ==
    /\ pc = "indexed"
    /\ runs = 2
    /\ Len(ChunkArticle(markdown)) = 3
    /\ C29_NoStaleChunks

(***************************************************************************)
(* agent/agent/vision_middleware.py: VisionImageMiddleware.process          *)
(* (specification SpecVision).                                              *)
(***************************************************************************)

MAX_VISION_IMAGES == 6

MaxMessages == 2

\* urllib.parse.unquote for the escapes that occur in the URLs of the model
Unquote(s) == Replace(Replace(s, "%2F", "/"), "%20", " ")

\* the proxy URL get_image_url builds for image number n of article a1
ProxyUrl(n) == "/api/images/a1/images/" \o Str(n) \o ".png"

\* one entry of the "images" list of a search result
ImgInfo(url) == [kind |-> "dict", url |-> url]

\* one search result of the tool output, and a JSON value that is not an object
ResultDict(urls) == [kind |-> "dict", images |-> [i \in 1..Len(urls) |-> ImgInfo(urls[i])]]

Scalar == [kind |-> "scalar"]

\* content.result of a FunctionResultContent: None, a text that is not JSON, a JSON
\* object, or a JSON list
FunctionResult(res) == [type |-> "FunctionResultContent", result |-> res]

JsonList(items) == [kind |-> "list", items |-> items]

ToolResults ==
    { [kind |-> "none"], [kind |-> "not_json"], [kind |-> "dict"],
      JsonList(<<ResultDict([i \in 1..8 |-> ProxyUrl(i)])>>),
      JsonList(<<ResultDict([i \in 1..7 |-> ProxyUrl(i)]), ResultDict(<<ProxyUrl(8)>>)>>),
      JsonList(<<ResultDict(<<ProxyUrl(1), ProxyUrl(2), ProxyUrl(1)>>),
                 ResultDict(<<"/api/images/a1%2Fb/c.png", "/api/images/a1/b/c.png">>),
                 ResultDict(<<>>)>>),
      JsonList(<<ResultDict(<<"https://x/y.png", "/api/images/a1", ProxyUrl(9)>>)>>),
      JsonList(<<ResultDict(<<ProxyUrl(1)>>), Scalar>>) }

\* a ChatMessage of the conversation: a tool message with one result, a user text
ChatMessage(role, contents) == [role |-> role, contents |-> contents]

MessageShapes ==
    {ChatMessage("tool", <<FunctionResult(r)>>) : r \in ToolResults}
        \cup {ChatMessage("user", <<[type |-> "TextContent"]>>), ChatMessage("assistant", <<>>)}

\* the blob key of a proxy URL: <<TRUE, key>>, or <<FALSE, "">> when the URL is skipped
BlobKey(url) ==
    LET at == FindSub(url, "/api/images/", 1)
        tail == SubSeq(url, at + 12, Len(url))
        slash == Find(tail, "/", 1)
    IN  IF at = 0 \/ slash = 0 THEN <<FALSE, "">>
        ELSE <<TRUE, Unquote(SubSeq(tail, 1, slash - 1)) \o "/"
                        \o Unquote(SubSeq(tail, slash + 1, Len(tail)))>>

\* the state of the scan: the images attached, the keys seen, an exception raised
ScanState(items, seen, raised) == [items |-> items, seen |-> seen, raised |-> raised]

\* `for img_info in result.get("images", [])` from entry k on; img_info.get raises
\* AttributeError on a value that is not an object
RECURSIVE ScanImages(_, _, _, _)
ScanImages(images, k, st, readable) ==
    IF k > Len(images) THEN st
    ELSE IF images[k].kind # "dict" THEN ScanState(st.items, st.seen, TRUE)
    ELSE LET key == BlobKey(images[k].url)
         IN  IF ~key[1] THEN ScanImages(images, k + 1, st, readable)
             ELSE IF key[2] \in st.seen THEN ScanImages(images, k + 1, st, readable)
             ELSE IF Len(st.items) >= MAX_VISION_IMAGES
                  THEN ScanState(st.items, st.seen \cup {key[2]}, FALSE)
             ELSE IF key[2] \notin readable
                  THEN ScanImages(images, k + 1,
                                  ScanState(st.items, st.seen \cup {key[2]}, FALSE), readable)
             ELSE ScanImages(images, k + 1,
                             ScanState(Append(st.items, key[2]), st.seen \cup {key[2]}, FALSE),
                             readable)

\* `for result in results` from result r on; result.get raises AttributeError on a value
\* that is not an object
RECURSIVE ScanResults(_, _, _, _)
ScanResults(items, r, st, readable) ==
    IF r > Len(items) \/ st.raised THEN st
    ELSE IF items[r].kind # "dict" THEN ScanState(st.items, st.seen, TRUE)
    ELSE ScanResults(items, r + 1, ScanImages(items[r].images, 1, st, readable), readable)

\* the body of `for content in msg.contents` for one content
ScanOneContent(content, st, readable) ==
    IF content.type # "FunctionResultContent" THEN st
    ELSE IF content.result.kind # "list" THEN st
    ELSE ScanResults(content.result.items, 1, st, readable)

\* the position after (m, c) in the iteration over the contents of the messages, or
\* <<Len + 1, 1>> when the iteration is over
RECURSIVE ContentFrom(_, _, _)
ContentFrom(msgs, m, c) ==
    IF m > Len(msgs) THEN <<Len(msgs) + 1, 1>>
    ELSE IF c <= Len(msgs[m].contents) THEN <<m, c>>
    ELSE ContentFrom(msgs, m + 1, 1)

visionRest == <<stageVars, batchVars, streamVars, kbVars>>

\* one iteration of `for content in msg.contents`; an exception leaves process
ScanContent ==
    /\ pc = "process"
    /\ vm <= Len(messages)
    /\ LET st == ScanOneContent(messages[vm].contents[vc],
                                ScanState(image_items, seen_paths, FALSE), blobs)
           nxt == ContentFrom(messages, vm, vc + 1)
       IN  /\ image_items' = st.items
           /\ seen_paths' = st.seen
           /\ IF st.raised
              THEN pc' = "raised" /\ UNCHANGED <<vm, vc>>
              ELSE pc' = "process" /\ vm' = nxt[1] /\ vc' = nxt[2]
    /\ UNCHANGED <<messages, blobs, next_calls, visionRest>>

\* `if image_items:` context.messages.append(vision_msg)
AppendVisionMessage ==
    /\ pc = "process"
    /\ vm > Len(messages)
    /\ image_items # <<>>
    /\ messages' = Append(messages,
           ChatMessage("user",
               <<[type |-> "TextContent"]>>
                   \o [i \in 1..Len(image_items) |-> [type |-> "DataContent", blob |-> image_items[i]]]))
    /\ pc' = "call_next"
    /\ UNCHANGED <<image_items, seen_paths, blobs, vm, vc, next_calls, visionRest>>

\* `if image_items:` is false
NoVisionMessage ==
    /\ pc = "process"
    /\ vm > Len(messages)
    /\ image_items = <<>>
    /\ pc' = "call_next"
    /\ UNCHANGED <<visionVars, visionRest>>

\* await next(context)
CallNext ==
    /\ pc = "call_next"
    /\ next_calls' = next_calls + 1
    /\ pc' = "returned"
    /\ UNCHANGED <<messages, image_items, seen_paths, blobs, vm, vc, visionRest>>

\* the blob keys of the proxy URLs of the model
AllBlobs == {"a1/images/" \o Str(n) \o ".png" : n \in 1..9} \cup {"a1/b/c.png"}

InitVision ==
    /\ MergeIdle
    /\ IndexIdle
    /\ BatchIdle
    /\ StreamIdle
    /\ KbIdle
    /\ \E n \in 1..MaxMessages : messages \in [1..n -> MessageShapes]
    /\ image_items = <<>>
    /\ seen_paths = {}
    /\ blobs \in {AllBlobs, {}, AllBlobs \ {"a1/images/1.png"}}
    /\ vm = ContentFrom(messages, 1, 1)[1]
    /\ vc = 1
    /\ next_calls = 0
    /\ pc = "process"

NextVision == ScanContent \/ AppendVisionMessage \/ NoVisionMessage \/ CallNext

SpecVision == InitVision /\ [][NextVision]_vars

\* the images a message carries
ImagesOf(msg) ==
    SelectSeq(msg.contents, LAMBDA c : c.type = "DataContent")

\* the indexes of the messages that carry images
VisionMessages == {m \in 1..Len(messages) : ImagesOf(messages[m]) # <<>>}

\* C30: one invocation of process appends at most one message with images, a user
\* message; it carries at most MAX_VISION_IMAGES images, no two of the same blob, and
\* only images that were downloaded, so there is none when no image could be
\* downloaded; when the invocation has ended, next(context) was called exactly once.
C30_VisionCapAndDedup ==
    /\ Cardinality(VisionMessages) <= 1
    /\ \A m \in VisionMessages :
           LET imgs == ImagesOf(messages[m])
           IN  /\ messages[m].role = "user"
               /\ Len(imgs) <= 6
               /\ \A i, j \in 1..Len(imgs) : imgs[i].blob = imgs[j].blob => i = j
               /\ \A i \in 1..Len(imgs) : imgs[i].blob \in blobs
    /\ next_calls <= 1
    /\ pc \in {"returned", "raised"} => next_calls = 1

\* a tool result holds a list entry, or an images entry, that is not a JSON object
MalformedToolResult ==
    \E m \in 1..Len(messages) : \E c \in 1..Len(messages[m].contents) :
        LET content == messages[m].contents[c]
        IN  /\ content.type = "FunctionResultContent"
            /\ content.result.kind = "list"
            /\ \E r \in 1..Len(content.result.items) : content.result.items[r].kind # "dict"

\* the cap, the deduplication and the single call of next hold on tool results whose
\* entries are JSON objects, as search_knowledge_base writes them
VisionCapAndDedupOnSearchResults ==
    ~MalformedToolResult => C30_VisionCapAndDedup

\* the cap was reached: eight distinct readable images were referenced, six attached
VisionCapSeen ==
    /\ pc = "returned"
    /\ Cardinality(seen_paths) > 6
    /\ \E m \in VisionMessages : Len(ImagesOf(messages[m])) = 6
    /\ next_calls = 1

====
